---- MODULE Spec2Model ----
(***************************************************************************)
(* HRMS backend: authentication, permission gate, attendance clock-in/out  *)
(* and leave requests/decisions.  Two variants are modelled: the           *)
(* relational one (src/api/routers/*.py over PostgreSQL tables) and the    *)
(* in-memory demo (app/main.py over process-local lists).                  *)
(*                                                                         *)
(* Tables are sets of rows (records); audit_logs and the demo lists are    *)
(* sequences.  A handler run on its own is one action; for the             *)
(* interleaving specifications the same handler is split at its            *)
(* statements: the SELECT, the UPDATE/INSERT with its commit, and the      *)
(* audit write.  Uncommitted writes are invisible to other sessions        *)
(* (READ COMMITTED), so a write and its commit are one step.               *)
(***************************************************************************)
EXTENDS Integers, Sequences, FiniteSets, TLC

VARIABLES
    users,                  \* table users: user id -> row
    user_roles,             \* table user_roles: set of <<user id, role id>>
    role_permissions,       \* table role_permissions: set of <<role id, permission key>>
    employees,              \* table employees: set of rows
    attendance_sessions,    \* table attendance_sessions: set of rows
    leave_requests,         \* table leave_requests: set of rows
    leave_approvals,        \* table leave_approvals: set of rows
    audit_logs,             \* table audit_logs, in insertion order
    today,                  \* date.today() of the server
    reqs,                   \* requests in flight (interleaving specifications)
    demo_attendance_sessions, \* app/main.py _attendance_sessions
    demo_leave_requests,    \* app/main.py _leave_requests
    app,                    \* the application the process serves: src.api.main or app.main
    audit_down,             \* whether the next INSERT INTO audit_logs raises
    last                    \* the response of the handler that ran last

vars == <<users, user_roles, role_permissions, employees, attendance_sessions,
          leave_requests, leave_approvals, audit_logs, today, reqs,
          demo_attendance_sessions, demo_leave_requests, app, audit_down, last>>

relVars == <<attendance_sessions, leave_requests, leave_approvals, audit_logs>>
rbacVars == <<users, user_roles, role_permissions, employees>>
Relational == "src.api.main"
Demo == "app.main"
demoVars == <<demo_attendance_sessions, demo_leave_requests>>

-----------------------------------------------------------------------------
(* Bounds of the model *)

MaxTick == 1        \* wall-clock readings are 0..MaxTick ticks
TickSeconds == 90   \* seconds per tick
MaxDate == 2        \* dates are 1..MaxDate
MaxAudit == 2       \* audit_logs holds at most MaxAudit rows
MaxRows == 2        \* a table (or demo list) holds at most MaxRows rows

NULL == "NULL"      \* SQL NULL / Python None of a text or id column
NoTime == 0 - 1     \* SQL NULL / Python None of a timestamp column

Times == {t * TickSeconds : t \in 0..MaxTick}
Dates == 1..MaxDate

-----------------------------------------------------------------------------
(* Storage the handlers read and never write *)

organizations ==
    { [id |-> "o1", slug |-> "demo"], [id |-> "o2", slug |-> "acme"] }

OrgSlugs == {"demo", "nope"}

leave_types ==
    { [id |-> "lt_annual", org_id |-> "o1", requires_approval |-> TRUE],
      [id |-> "lt_comp",   org_id |-> "o1", requires_approval |-> FALSE],
      [id |-> "lt_other",  org_id |-> "o2", requires_approval |-> TRUE] }

LeaveTypeIds == {t.id : t \in leave_types} \cup {"lt_unknown"}

\* The users table at start: u1 and u4 are managers of o1 (u4 has no employee
\* row), u2 is an employee of o1, u3 a manager of o2, u5 is inactive.
UserRows ==
    [ u1 |-> [org_id |-> "o1", email |-> "A@x", password |-> "pw1", is_active |-> TRUE],
      u2 |-> [org_id |-> "o1", email |-> "b@x", password |-> "pw2", is_active |-> TRUE],
      u3 |-> [org_id |-> "o2", email |-> "a@x", password |-> "pw1", is_active |-> TRUE],
      u4 |-> [org_id |-> "o1", email |-> "d@x", password |-> "pw1", is_active |-> TRUE],
      u5 |-> [org_id |-> "o1", email |-> "c@x", password |-> "pw2", is_active |-> FALSE] ]

UserIds == DOMAIN UserRows
Emails == {"A@x", "a@x", "c@x", "C@x", "zz@x"}
Passwords == {"pw1", "pw2"}
PermissionKeys == {"employee.read", "employee.write", "leave.apply", "leave.read", "leave.approve"}

\* The grants at start: the manager roles hold every key, the employee role of
\* o1 holds leave.apply and leave.read.
InitUserRoles ==
    { <<"u1", "mgr_o1">>, <<"u2", "emp_o1">>, <<"u3", "mgr_o2">>,
      <<"u4", "mgr_o1">>, <<"u5", "emp_o1">> }

InitRolePermissions ==
    {<<r, k>> : r \in {"mgr_o1", "mgr_o2"}, k \in PermissionKeys}
    \cup {<<"emp_o1", k>> : k \in {"leave.apply", "leave.read"}}

\* SQL lower(): strings are opaque to TLC, so lower() is tabulated.
Lower(e) == IF e = "A@x" THEN "a@x" ELSE IF e = "C@x" THEN "c@x" ELSE e

-----------------------------------------------------------------------------
(* src/core/security.py *)

hash_password(password) == <<"bcrypt", password>>

verify_password(password, password_hash) == password_hash = <<"bcrypt", password>>

-----------------------------------------------------------------------------
(* src/core/jwt.py: a token is its claims and the key that signed it *)

jwt_secret_key == "server-key"
access_token_ttl_minutes == 30
refresh_token_ttl_minutes == 43200

create_access_token(subject, org_id, now) ==
    [ sub |-> subject, org_id |-> org_id, type |-> "access",
      iat |-> now, exp |-> now + access_token_ttl_minutes * 60, key |-> jwt_secret_key ]

create_refresh_token(subject, org_id, now) ==
    [ sub |-> subject, org_id |-> org_id, type |-> "refresh",
      iat |-> now, exp |-> now + refresh_token_ttl_minutes * 60, key |-> jwt_secret_key ]

\* jwt.decode: JWTError on a bad signature or an expired token, else the claims.
decode_token(token, now) ==
    IF token.key # jwt_secret_key \/ token.exp < now
    THEN [ok |-> FALSE]
    ELSE [ok |-> TRUE, sub |-> token.sub, org_id |-> token.org_id, type |-> token.type]

\* assert_token_type never raising.
assert_token_type_any(payload, token_type) == TRUE

assert_token_type(payload, token_type) == payload.type = token_type

-----------------------------------------------------------------------------
(* src/deps/auth.py *)

_load_roles(user_id) ==
    {ur[2] : ur \in {x \in user_roles : x[1] = user_id}}

\* The permissions as they were granted when the token was issued.
_load_permissions_at_issue(user_id) ==
    {rp[2] : rp \in {x \in InitRolePermissions :
                        x[1] \in {ur[2] : ur \in {y \in InitUserRoles : y[1] = user_id}}}}

_load_permissions(user_id) ==
    {rp[2] : rp \in {x \in role_permissions : x[1] \in _load_roles(user_id)}}

\* SELECT id FROM employees WHERE user_id = :user_id LIMIT 1
_load_employee_id(user_id) ==
    IF \E e \in employees : e.user_id = user_id
    THEN {e.id : e \in {x \in employees : x.user_id = user_id}}
    ELSE {NULL}

HTTPException(status_code, detail) ==
    [ok |-> FALSE, status |-> status_code, detail |-> detail, missing |-> <<>>]

Unauthorized(detail) == HTTPException(401, detail)

\* The type test of get_current_principal with the comparison dropped.
TokenTypeOk_any(payload) == TRUE

TokenTypeOk(payload) == payload.type = "access"

\* The user test of get_current_principal looking only for the row.
UserIsActive_exists(user_id) == user_id \in DOMAIN users

\* user = db.get(User, UUID(sub)); not (not user or not user.is_active)
UserIsActive(user_id) == user_id \in DOMAIN users /\ users[user_id].is_active

\* The principals get_current_principal may return for a bearer token (one per
\* employee row LIMIT 1 may pick), or the 401 it raises.
get_current_principal(token, now) ==
    LET payload == decode_token(token, now) IN
    IF ~payload.ok THEN {Unauthorized("Invalid token")}
    ELSE IF ~TokenTypeOk(payload) THEN {Unauthorized("Invalid access token")}
    ELSE IF payload.sub = NULL \/ payload.org_id = NULL THEN {Unauthorized("Malformed token")}
    ELSE IF ~UserIsActive(payload.sub)
         THEN {Unauthorized("User inactive or not found")}
    ELSE { [ ok |-> TRUE, status |-> 200, detail |-> "",
             user_id |-> payload.sub, org_id |-> payload.org_id,
             roles |-> _load_roles(payload.sub),
             permissions |-> _load_permissions(payload.sub),
             employee_id |-> emp ] : emp \in _load_employee_id(payload.sub) }

\* The gate with OR semantics: one held key is enough.
Missing_any(required, permissions) ==
    IF \E i \in 1..Len(required) : required[i] \in permissions THEN <<>>
    ELSE required

\* missing = [p for p in required if p not in principal.permissions]
RECURSIVE Missing(_, _)
Missing(required, permissions) ==
    IF required = <<>> THEN <<>>
    ELSE (IF Head(required) \in permissions THEN <<>> ELSE <<Head(required)>>)
         \o Missing(Tail(required), permissions)

\* A permission dependency that lets every authenticated principal through.
require_permissions_skipped(required, principal) == principal

\* require_permissions(required)(principal): the principal, or the 403.
require_permissions(required, principal) ==
    IF ~principal.ok THEN principal
    ELSE LET missing == Missing(required, principal.permissions) IN
         IF missing # <<>>
         THEN [ok |-> FALSE, status |-> 403, detail |-> "Missing permissions",
               missing |-> missing]
         ELSE principal

-----------------------------------------------------------------------------
(* Responses and the audit writer *)

\* What the handler that ran last returned: the operation, the bearer token
\* and the inputs it was called with, the HTTP status, the error detail (and
\* the keys a 403 lists), the id of the row it was about and, when it
\* succeeded, the clock reading it took and the body it returned.
NoToken == [sub |-> NULL, org_id |-> NULL, type |-> NULL, iat |-> 0, exp |-> 0, key |-> NULL]
NoBody == [none |-> TRUE]
NoArg == [none |-> TRUE]

Response(op, token, status, detail, missing, entity) ==
    [ op |-> op, token |-> token, arg |-> NoArg, status |-> status, detail |-> detail,
      missing |-> missing, entity |-> entity, now |-> NoTime, body |-> NoBody ]

Raised(op, token, e) == Response(op, token, e.status, e.detail, e.missing, 0)

Returned(op, token, status, entity, now, body) ==
    [Response(op, token, status, "", <<>>, entity) EXCEPT !.now = now, !.body = body]

\* write_audit_log inserting its row twice.
write_audit_log_twice(logs, org_id, actor_user_id, actor_employee_id, action, entity_type, entity_id) ==
    LET row == [ org_id |-> org_id, actor_user_id |-> actor_user_id,
                 actor_employee_id |-> actor_employee_id, action |-> action,
                 entity_type |-> entity_type, entity_id |-> entity_id ]
    IN Append(Append(logs, row), row)

\* write_audit_log replacing the newest row of the log by its own.
write_audit_log_overwrite(logs, org_id, actor_user_id, actor_employee_id, action, entity_type, entity_id) ==
    LET row == [ org_id |-> org_id, actor_user_id |-> actor_user_id,
                 actor_employee_id |-> actor_employee_id, action |-> action,
                 entity_type |-> entity_type, entity_id |-> entity_id ]
    IN IF logs = <<>> THEN <<row>> ELSE [logs EXCEPT ![Len(logs)] = row]

\* src/services/audit.py: one INSERT INTO audit_logs and its commit.
write_audit_log(logs, org_id, actor_user_id, actor_employee_id, action, entity_type, entity_id) ==
    Append(logs, [ org_id |-> org_id, actor_user_id |-> actor_user_id,
                   actor_employee_id |-> actor_employee_id, action |-> action,
                   entity_type |-> entity_type, entity_id |-> entity_id ])

\* The handler's db.commit() with its statement left in the transaction of
\* the audit INSERT: undone when that INSERT raises.
db_commit_with_audit(before, after) == IF audit_down THEN before ELSE after

\* db.commit() of the handler's own statement, called before write_audit_log:
\* the table as written is durable whatever the handler does next.
db_commit(before, after) == after

\* The call of write_audit_log and the return after it.  write_audit_log has
\* no try/except: when its INSERT raises, no row is appended, the exception
\* leaves the handler and the client is answered 500.
Audited(appended, response) ==
    /\ IF audit_down
       THEN /\ audit_logs' = audit_logs
            /\ last' = [response EXCEPT !.status = 500, !.detail = "Internal Server Error",
                                        !.body = NoBody]
       ELSE /\ audit_logs' = appended
            /\ last' = response
    /\ audit_down' = FALSE

\* The bearer tokens the callers of the attendance and leave routes present: the
\* access token login issues to each user, and a refresh token.  (Forged and
\* expired tokens are presented in SpecAuth.)
BearerTokens ==
    {create_access_token(u, UserRows[u].org_id, 0) : u \in UserIds}
    \cup {create_refresh_token("u1", "o1", 0)}

-----------------------------------------------------------------------------
(* src/api/routers/leaves.py *)

\* The leave type query without its org clause.
SelectLeaveType_any_org(org_id, id) == {t \in leave_types : t.id = id}

\* SELECT requires_approval FROM leave_types WHERE org_id = :org_id AND id = :id
SelectLeaveType(org_id, id) == {t \in leave_types : t.org_id = org_id /\ t.id = id}

\* gen_random_uuid(): an id no row of the table has.
NewId(table) == Cardinality(table) + 1

\* An INSERT that leaves decided_at NULL also for a request approved at once.
InsertLeaveRequest_undecided(lr_id, principal, leave_type_id, start_date, end_date, status_value, now) ==
    leave_requests \cup
    { [ id |-> lr_id, org_id |-> principal.org_id, employee_id |-> principal.employee_id,
        leave_type_id |-> leave_type_id,
        status |-> status_value, requested_at |-> now,
        decided_at |-> NoTime, updated_at |-> now ] }

\* INSERT INTO leave_requests (...); the columns no handler reads back in a
\* WHERE or a test (start_date, end_date, unit, quantity, reason, created_at)
\* are left out of the row.
InsertLeaveRequest(lr_id, principal, leave_type_id, start_date, end_date, status_value, now) ==
    leave_requests \cup
    { [ id |-> lr_id, org_id |-> principal.org_id, employee_id |-> principal.employee_id,
        leave_type_id |-> leave_type_id,
        status |-> status_value, requested_at |-> now,
        decided_at |-> IF status_value = "approved" THEN now ELSE NoTime,
        updated_at |-> now ] }

\* The checks of apply_leave with the leave type looked up before the dates
\* are compared.
ApplyChecks_type_first(principal, leave_type, start_date, end_date) ==
    IF principal.employee_id = NULL
    THEN HTTPException(400, "User has no employee mapping")
    ELSE IF leave_type = {} THEN HTTPException(400, "Invalid leave type")
    ELSE IF end_date < start_date THEN HTTPException(400, "Invalid date range")
    ELSE principal

\* _require_employee, the date test, then the leave type row; the first that
\* fails raises.
ApplyChecks(principal, leave_type, start_date, end_date) ==
    IF principal.employee_id = NULL
    THEN HTTPException(400, "User has no employee mapping")
    ELSE IF end_date < start_date THEN HTTPException(400, "Invalid date range")
    ELSE IF leave_type = {} THEN HTTPException(400, "Invalid leave type")
    ELSE principal

apply_leave(token, leave_type_id, start_date, end_date, now) ==
    \E p \in get_current_principal(token, now) :
    LET principal == require_permissions(<<"leave.apply">>, p)
        leave_type == SelectLeaveType(principal.org_id, leave_type_id)
        checked == IF principal.ok
                   THEN ApplyChecks(principal, leave_type, start_date, end_date)
                   ELSE principal
        status_value == IF (CHOOSE t \in leave_type : TRUE).requires_approval
                        THEN "pending" ELSE "approved"
        lr_id == NewId(leave_requests)
        arg == [ leave_type_id |-> leave_type_id, start_date |-> start_date,
                 end_date |-> end_date, now |-> now ]
    IN
    IF ~checked.ok
    THEN /\ last' = [Raised("apply_leave", token, checked) EXCEPT !.arg = arg]
         /\ UNCHANGED <<relVars, rbacVars, demoVars, today, reqs, app, audit_down>>
    ELSE /\ Cardinality(leave_requests) < MaxRows
         /\ Len(audit_logs) < MaxAudit
         /\ leave_requests' =
               db_commit(leave_requests,
                         InsertLeaveRequest(lr_id, principal, leave_type_id,
                                            start_date, end_date, status_value, now))
         /\ Audited(write_audit_log(audit_logs, principal.org_id, principal.user_id,
                                    principal.employee_id, "leave.apply",
                                    "leave_request", lr_id),
                    [ Returned("apply_leave", token, 201, lr_id, now,
                               CHOOSE r \in InsertLeaveRequest(lr_id, principal, leave_type_id,
                                              start_date, end_date, status_value, now) :
                                   r.id = lr_id)
                      EXCEPT !.arg = arg ])
         /\ UNCHANGED <<attendance_sessions, leave_approvals, rbacVars, demoVars, today, reqs, app>>

Decisions == {"approved", "rejected", "maybe"}

\* The leave request query without its org clause.
SelectLeaveRequest_any_org(org_id, id) == {r \in leave_requests : r.id = id}

\* SELECT id, employee_id, status FROM leave_requests WHERE org_id = :org_id AND id = :id
SelectLeaveRequest(org_id, id) == {r \in leave_requests : r.org_id = org_id /\ r.id = id}

\* The checks of decide_leave between its SELECT and its UPDATE, with the
\* status test dropped.
DecideChecks_no_pending(lr, principal) ==
    IF lr = {} THEN HTTPException(404, "Leave request not found")
    ELSE IF principal.employee_id = NULL
         THEN HTTPException(400, "Approver must be mapped to an employee")
    ELSE [ok |-> TRUE]

\* The checks of decide_leave between its SELECT and its UPDATE: the error
\* raised, or ok.
DecideChecks(lr, principal) ==
    IF lr = {} THEN HTTPException(404, "Leave request not found")
    ELSE IF (CHOOSE r \in lr : TRUE).status # "pending"
         THEN HTTPException(400, "Leave request is not pending")
    ELSE IF principal.employee_id = NULL
         THEN HTTPException(400, "Approver must be mapped to an employee")
    ELSE [ok |-> TRUE]

\* UPDATE leave_requests SET status, decided_at, updated_at WHERE id = :id
UpdateLeaveRequest(table, id, decision, now) ==
    {IF r.id = id
     THEN [r EXCEPT !.status = decision, !.decided_at = now, !.updated_at = now]
     ELSE r : r \in table}

\* decide_leave committing its UPDATE without the approval row.
InsertLeaveApproval_later(table, org_id, lr_id, approver_id, decision, now) == table

\* INSERT INTO leave_approvals (...)
InsertLeaveApproval(table, org_id, lr_id, approver_id, decision, now) ==
    table \cup { [ id |-> NewId(table), org_id |-> org_id, leave_request_id |-> lr_id,
                   approver_employee_id |-> approver_id, decision |-> decision,
                   decided_at |-> now ] }

decide_leave(token, leave_request_id, decision, now) ==
    \E p \in get_current_principal(token, now) :
    LET principal == require_permissions(<<"leave.approve">>, p)
        lr == SelectLeaveRequest(principal.org_id, leave_request_id)
        checks == DecideChecks(lr, principal)
        Raise(e) == /\ last' = [Raised("decide_leave", token, e) EXCEPT !.entity = leave_request_id]
                    /\ UNCHANGED <<relVars, rbacVars, demoVars, today, reqs, app, audit_down>>
    IN
    IF ~principal.ok THEN Raise(principal)
    ELSE IF decision \notin {"approved", "rejected"}
         THEN Raise(HTTPException(400, "Invalid decision"))
    ELSE IF ~checks.ok THEN Raise(checks)
    ELSE /\ Cardinality(leave_approvals) < MaxRows
         /\ Len(audit_logs) < MaxAudit
         /\ leave_requests' =
               db_commit(leave_requests,
                         UpdateLeaveRequest(leave_requests, leave_request_id, decision, now))
         /\ leave_approvals' =
               db_commit(leave_approvals,
                         InsertLeaveApproval(leave_approvals, principal.org_id,
                             leave_request_id, principal.employee_id, decision, now))
         /\ Audited(write_audit_log(audit_logs, principal.org_id, principal.user_id,
                                    principal.employee_id, "leave.decide",
                                    "leave_request", leave_request_id),
                    Returned("decide_leave", token, 200, leave_request_id, now,
                             CHOOSE r \in UpdateLeaveRequest(leave_requests, leave_request_id,
                                                             decision, now) :
                                 r.id = leave_request_id))
         /\ UNCHANGED <<attendance_sessions, rbacVars, demoVars, today, reqs, app>>

-----------------------------------------------------------------------------
(* src/api/routers/attendance.py *)

\* SELECT ... FROM attendance_sessions
\* WHERE org_id = :org_id AND employee_id = :employee_id AND session_date = :d
\* fetchone() returns one of the matching rows, or None.
NoRow == [id |-> 0]

\* The SELECT of the attendance handlers without its session_date condition.
SelectSession_any_date(org_id, employee_id, d) ==
    LET rows == {s \in attendance_sessions :
                    s.org_id = org_id /\ s.employee_id = employee_id}
    IN IF rows = {} THEN {NoRow} ELSE rows

\* The SELECT as written: the caller's rows of the date d.
SelectSession(org_id, employee_id, d) ==
    LET rows == {s \in attendance_sessions :
                    s.org_id = org_id /\ s.employee_id = employee_id /\ s.session_date = d}
    IN IF rows = {} THEN {NoRow} ELSE rows

\* clock_in's test on the row it read, taken as "the session is still open".
AlreadyClockedIn_open(existing) ==
    existing # NoRow /\ existing.clock_in_at # NoTime /\ existing.clock_out_at = NoTime

\* clock_in's test dropped: it never refuses.
AlreadyClockedIn_never(existing) == FALSE

\* if existing and existing[1]
AlreadyClockedIn(existing) == existing # NoRow /\ existing.clock_in_at # NoTime

\* clock_in's write: the UPDATE of the row it read, or the INSERT of a new row.
\* The columns no handler reads back (work_mode, source, notes, created_at,
\* updated_at) are left out of the row.
ClockInWrite(table, existing, principal, d, now) ==
    IF existing # NoRow
    THEN {IF s.id = existing.id THEN [s EXCEPT !.clock_in_at = now] ELSE s : s \in table}
    ELSE table \cup
         { [ id |-> NewId(table), org_id |-> principal.org_id,
             employee_id |-> principal.employee_id, session_date |-> d,
             clock_in_at |-> now, clock_out_at |-> NoTime, minutes_worked |-> 0 ] }

\* The id of the row clock_in's statement RETURNs.
ClockInRowId(table, existing) == IF existing # NoRow THEN existing.id ELSE NewId(table)

clock_in(token, now) ==
    \E p \in get_current_principal(token, now) :
    LET Raise(e) == /\ last' = Raised("clock_in", token, e)
                    /\ UNCHANGED <<relVars, rbacVars, demoVars, today, reqs, app, audit_down>>
    IN
    IF ~p.ok THEN Raise(p)
    ELSE IF p.employee_id = NULL THEN Raise(HTTPException(400, "User has no employee mapping"))
    ELSE \E existing \in SelectSession(p.org_id, p.employee_id, today) :
         IF AlreadyClockedIn(existing) THEN Raise(HTTPException(400, "Already clocked in"))
         ELSE /\ Cardinality(attendance_sessions) < MaxRows \/ existing # NoRow
              /\ Len(audit_logs) < MaxAudit
              /\ attendance_sessions' =
                    db_commit(attendance_sessions,
                              ClockInWrite(attendance_sessions, existing, p, today, now))
              /\ Audited(write_audit_log(audit_logs, p.org_id, p.user_id, p.employee_id,
                                   "attendance.clock_in", "attendance_session",
                                   ClockInRowId(attendance_sessions, existing)),
                         Returned("clock_in", token, 200,
                                  ClockInRowId(attendance_sessions, existing), now,
                                  CHOOSE s \in ClockInWrite(attendance_sessions, existing,
                                                            p, today, now) :
                                      s.id = ClockInRowId(attendance_sessions, existing)))
              /\ UNCHANGED <<leave_requests, leave_approvals, rbacVars, demoVars, today, reqs, app>>

\* clock_out's checks without the test for a session already closed.
ClockOutChecks_no_closed(existing) ==
    IF existing = NoRow \/ existing.clock_in_at = NoTime
    THEN HTTPException(400, "Not clocked in")
    ELSE [ok |-> TRUE]

\* The checks of clock_out on the row it read: the error raised, or ok.
ClockOutChecks(existing) ==
    IF existing = NoRow \/ existing.clock_in_at = NoTime
    THEN HTTPException(400, "Not clocked in")
    ELSE IF existing.clock_out_at # NoTime THEN HTTPException(400, "Already clocked out")
    ELSE [ok |-> TRUE]

\* The minutes computed without the clamp.
Minutes_unclamped(clock_in_at, now) == (now - clock_in_at) \div 60

\* int(max(0, (now - clock_in_at).total_seconds() // 60)); // floors, as \div does.
Minutes(clock_in_at, now) ==
    IF (now - clock_in_at) \div 60 > 0 THEN (now - clock_in_at) \div 60 ELSE 0

\* UPDATE attendance_sessions SET clock_out_at = :now, minutes_worked = :minutes WHERE id = :id
ClockOutWrite(table, existing, now) ==
    {IF s.id = existing.id
     THEN [s EXCEPT !.clock_out_at = now, !.minutes_worked = Minutes(existing.clock_in_at, now)]
     ELSE s : s \in table}

clock_out(token, now) ==
    \E p \in get_current_principal(token, now) :
    LET Raise(e) == /\ last' = Raised("clock_out", token, e)
                    /\ UNCHANGED <<relVars, rbacVars, demoVars, today, reqs, app, audit_down>>
    IN
    IF ~p.ok THEN Raise(p)
    ELSE IF p.employee_id = NULL THEN Raise(HTTPException(400, "User has no employee mapping"))
    ELSE \E existing \in SelectSession(p.org_id, p.employee_id, today) :
         IF ~ClockOutChecks(existing).ok THEN Raise(ClockOutChecks(existing))
         ELSE /\ Len(audit_logs) < MaxAudit
              /\ attendance_sessions' =
                    db_commit(attendance_sessions,
                              ClockOutWrite(attendance_sessions, existing, now))
              /\ Audited(write_audit_log(audit_logs, p.org_id, p.user_id, p.employee_id,
                                   "attendance.clock_out", "attendance_session", existing.id),
                         Returned("clock_out", token, 200, existing.id, now,
                                  CHOOSE s \in ClockOutWrite(attendance_sessions, existing, now) :
                                      s.id = existing.id))
              /\ UNCHANGED <<leave_requests, leave_approvals, rbacVars, demoVars, today, reqs, app>>

\* The server's date moves on (date.today() at the next request is a later day).
NextDay ==
    /\ today < MaxDate
    /\ today' = today + 1
    /\ UNCHANGED <<relVars, rbacVars, demoVars, reqs, last, app, audit_down>>

-----------------------------------------------------------------------------
(* app/main.py: the in-memory application *)

\* _DEMO_USERS, keyed by email.
_DEMO_USERS ==
    [ e \in {"admin@demo.local", "employee@demo.local"} |->
        IF e = "admin@demo.local"
        THEN [ password |-> "admin123", user_id |-> "usr_demo_admin",
               org_id |-> "org_demo", employee_id |-> "emp_demo_admin" ]
        ELSE [ password |-> "employee123", user_id |-> "usr_demo_employee",
               org_id |-> "org_demo", employee_id |-> "emp_demo_employee" ] ]

_TOKEN_PREFIX == "demo:"

\* f"{_TOKEN_PREFIX}{email}": a token is a prefix followed by an email.
_issue_token(email) == [prefix |-> _TOKEN_PREFIX, email |-> email]

\* f"refresh:{access}"
DemoRefreshToken(access) == [prefix |-> "refresh:" \o access.prefix, email |-> access.email]

\* token[len(_TOKEN_PREFIX):] if the token starts with the prefix, else None.
_email_from_token(token) == IF token.prefix = _TOKEN_PREFIX THEN token.email ELSE NULL

\* None where a token is expected, and where a timestamp text is expected.
NoDemoToken == [prefix |-> NULL, email |-> NULL]
NoIso == [seconds |-> NoTime, suffix |-> NULL]

\* An Authorization header: absent, or a scheme, a space and a token.
NoHeader == [scheme |-> NULL, token |-> NoDemoToken]

\* parts[0].lower()
LowerScheme(scheme) == IF scheme \in {"Bearer", "bearer", "BEARER"} THEN "bearer" ELSE scheme

_parse_bearer_token(authorization) ==
    IF authorization = NoHeader THEN NoDemoToken
    ELSE IF LowerScheme(authorization.scheme) # "bearer" THEN NoDemoToken
    ELSE authorization.token

_get_current_user(authorization) ==
    LET token == _parse_bearer_token(authorization) IN
    IF token = NoDemoToken THEN HTTPException(401, "Missing bearer token")
    ELSE LET email == _email_from_token(token) IN
         IF email = NULL \/ email \notin DOMAIN _DEMO_USERS
         THEN HTTPException(401, "Invalid token")
         ELSE [ ok |-> TRUE, email |-> email, user_id |-> _DEMO_USERS[email].user_id,
                org_id |-> _DEMO_USERS[email].org_id,
                employee_id |-> _DEMO_USERS[email].employee_id ]

\* datetime.utcnow().replace(microsecond=0).isoformat() + "Z": the text of a
\* clock reading in whole seconds, with the zone suffix.
_utcnow_iso(now) == [seconds |-> now, suffix |-> "Z"]

\* datetime.fromisoformat(s.replace("Z", "+00:00")), as seconds.
FromIso(s) == s.seconds

\* A lookup of the open session that also asks for today's date, as the
\* relational handlers do.
_find_open_session_today(sessions, employee_id) ==
    LET open == {i \in 1..Len(sessions) :
                    /\ sessions[i].employee_id = employee_id
                    /\ sessions[i].session_date = today
                    /\ sessions[i].clock_out_at = NoIso}
    IN IF open = {} THEN 0 ELSE CHOOSE i \in open : \A j \in open : i <= j

\* _find_open_session: the first index whose session is the employee's and has
\* no clock_out_at, or 0 for None.
_find_open_session(sessions, employee_id) ==
    LET open == {i \in 1..Len(sessions) :
                    /\ sessions[i].employee_id = employee_id
                    /\ sessions[i].clock_out_at = NoIso}
    IN IF open = {} THEN 0 ELSE CHOOSE i \in open : \A j \in open : i <= j

demo_clock_in(authorization, now) ==
    LET u == _get_current_user(authorization)
        open_idx == _find_open_session(demo_attendance_sessions, u.employee_id)
        session == [ id |-> Len(demo_attendance_sessions) + 1, org_id |-> u.org_id,
                     employee_id |-> u.employee_id, session_date |-> today,
                     clock_in_at |-> _utcnow_iso(now), clock_out_at |-> NoIso,
                     minutes_worked |-> 0 ]
    IN
    IF ~u.ok
    THEN /\ last' = Raised("demo_clock_in", authorization, u)
         /\ UNCHANGED <<relVars, rbacVars, demoVars, today, reqs, app, audit_down>>
    ELSE IF open_idx # 0
    THEN /\ last' = Returned("demo_clock_in", authorization, 200,
                             demo_attendance_sessions[open_idx].id, NoTime,
                             demo_attendance_sessions[open_idx])
         /\ UNCHANGED <<relVars, rbacVars, demoVars, today, reqs, app, audit_down>>
    ELSE /\ Len(demo_attendance_sessions) < MaxRows
         /\ demo_attendance_sessions' = <<session>> \o demo_attendance_sessions
         /\ last' = Returned("demo_clock_in", authorization, 200, session.id, now, session)
         /\ UNCHANGED <<relVars, rbacVars, demo_leave_requests, today, reqs, app, audit_down>>

\* max(0, int((cout - cin).total_seconds() // 60))
DemoMinutes(clock_in_at, now) ==
    LET m == (FromIso(now) - FromIso(clock_in_at)) \div 60 IN IF m > 0 THEN m ELSE 0

demo_clock_out(authorization, now) ==
    LET u == _get_current_user(authorization)
        open_idx == _find_open_session(demo_attendance_sessions, u.employee_id)
        existing == demo_attendance_sessions[open_idx]
        updated == [ existing EXCEPT
                       !.clock_out_at = _utcnow_iso(now),
                       !.minutes_worked = DemoMinutes(existing.clock_in_at, _utcnow_iso(now)) ]
    IN
    IF ~u.ok
    THEN /\ last' = Raised("demo_clock_out", authorization, u)
         /\ UNCHANGED <<relVars, rbacVars, demoVars, today, reqs, app, audit_down>>
    ELSE IF open_idx = 0
    THEN /\ last' = Raised("demo_clock_out", authorization,
                           HTTPException(400, "No open attendance session"))
         /\ UNCHANGED <<relVars, rbacVars, demoVars, today, reqs, app, audit_down>>
    ELSE /\ demo_attendance_sessions' = [demo_attendance_sessions EXCEPT ![open_idx] = updated]
         /\ last' = Returned("demo_clock_out", authorization, 200, updated.id, now, updated)
         /\ UNCHANGED <<relVars, rbacVars, demo_leave_requests, today, reqs, app, audit_down>>

\* apply_leave of the in-memory application: the request is put first in the
\* list, pending, with id f"lv_{len(_leave_requests)+1}" (kept as the number).
demo_apply_leave(authorization, leave_type_id, now) ==
    LET u == _get_current_user(authorization)
        lr == [ id |-> Len(demo_leave_requests) + 1, org_id |-> u.org_id,
                employee_id |-> u.employee_id, leave_type_id |-> leave_type_id,
                status |-> "pending", requested_at |-> _utcnow_iso(now),
                decided_at |-> NoIso, updated_at |-> _utcnow_iso(now) ]
    IN
    IF ~u.ok
    THEN /\ last' = Raised("demo_apply_leave", authorization, u)
         /\ UNCHANGED <<relVars, rbacVars, demoVars, today, reqs, app, audit_down>>
    ELSE /\ Len(demo_leave_requests) < MaxRows
         /\ demo_leave_requests' = <<lr>> \o demo_leave_requests
         /\ last' = Returned("demo_apply_leave", authorization, 200, lr.id, now, lr)
         /\ UNCHANGED <<relVars, rbacVars, demo_attendance_sessions, today, reqs, app,
                        audit_down>>

\* (payload.decision or "").strip().lower(), tabulated.
DemoDecision(decision) ==
    IF decision = " Approved " THEN "approved"
    ELSE IF decision = "REJECTED" THEN "rejected"
    ELSE decision

\* decide_leave of the in-memory application: the first request of the list
\* with the id, whatever its status, is given the decision.
demo_decide_leave(authorization, leave_request_id, decision, now) ==
    LET u == _get_current_user(authorization)
        found == {i \in 1..Len(demo_leave_requests) :
                     demo_leave_requests[i].id = leave_request_id}
        idx == CHOOSE i \in found : \A j \in found : i <= j
        updated == [ demo_leave_requests[idx] EXCEPT
                       !.status = DemoDecision(decision),
                       !.decided_at = _utcnow_iso(now),
                       !.updated_at = _utcnow_iso(now) ]
        Raise(e) == /\ last' = [ Raised("demo_decide_leave", authorization, e)
                                 EXCEPT !.entity = leave_request_id ]
                    /\ UNCHANGED <<relVars, rbacVars, demoVars, today, reqs, app, audit_down>>
    IN
    IF ~u.ok THEN Raise(u)
    ELSE IF DemoDecision(decision) \notin {"approved", "rejected"}
         THEN Raise(HTTPException(400, "Invalid decision"))
    ELSE IF found = {} THEN Raise(HTTPException(404, "Leave request not found"))
    ELSE /\ demo_leave_requests' = [demo_leave_requests EXCEPT ![idx] = updated]
         /\ last' = Returned("demo_decide_leave", authorization, 200, leave_request_id,
                             now, updated)
         /\ UNCHANGED <<relVars, rbacVars, demo_attendance_sessions, today, reqs, app,
                        audit_down>>

\* The Authorization headers clients send to the in-memory application.
Authorizations ==
    { NoHeader,
      [scheme |-> "Bearer", token |-> _issue_token("admin@demo.local")],
      [scheme |-> "bearer", token |-> _issue_token("employee@demo.local")],
      [scheme |-> "Bearer", token |-> _issue_token("ghost@demo.local")],
      [scheme |-> "Bearer", token |-> DemoRefreshToken(_issue_token("admin@demo.local"))],
      [scheme |-> "Basic", token |-> _issue_token("admin@demo.local")] }

-----------------------------------------------------------------------------
(* src/api/routers/auth.py *)

\* SELECT id FROM organizations WHERE slug = :slug LIMIT 1
SelectOrg(slug) == {o \in organizations : o.slug = slug}

\* The user lookup of login without its org_id condition.
SelectUser_any_org(org_id, email) ==
    {u \in DOMAIN users : Lower(users[u].email) = Lower(email)}

\* The user lookup of login comparing emails as they are written.
SelectUser_case_sensitive(org_id, email) ==
    {u \in DOMAIN users : users[u].org_id = org_id /\ users[u].email = email}

\* SELECT id, password_hash, is_active FROM users
\* WHERE org_id = :org_id AND lower(email) = lower(:email) LIMIT 1
SelectUser(org_id, email) ==
    {u \in DOMAIN users : users[u].org_id = org_id /\ Lower(users[u].email) = Lower(email)}

\* login's checks with a detail of its own for a wrong password.
LoginChecks_wrong_password(u, password) ==
    IF u = NULL \/ ~users[u].is_active THEN Unauthorized("Invalid credentials")
    ELSE IF ~verify_password(password, users[u].password_hash)
    THEN Unauthorized("Wrong password")
    ELSE [ok |-> TRUE]

\* login's checks on the user row it read (NULL for no row): the 401, or ok.
LoginChecks(u, password) ==
    IF u = NULL \/ ~users[u].is_active THEN Unauthorized("Invalid credentials")
    ELSE IF ~verify_password(password, users[u].password_hash)
    THEN Unauthorized("Invalid credentials")
    ELSE [ok |-> TRUE]

login(org_slug, email, password, now) ==
    LET arg == [org_slug |-> org_slug, email |-> email, password |-> password]
        Raise(e) == /\ last' = [Raised("login", NoToken, e) EXCEPT !.arg = arg]
                    /\ UNCHANGED <<relVars, rbacVars, demoVars, today, reqs, app, audit_down>>
    IN
    IF SelectOrg(org_slug) = {} THEN Raise(HTTPException(400, "Invalid org"))
    ELSE \E org \in SelectOrg(org_slug) :
         \E u \in (IF SelectUser(org.id, email) = {} THEN {NULL}
                   ELSE SelectUser(org.id, email)) :
            IF ~LoginChecks(u, password).ok THEN Raise(LoginChecks(u, password))
            ELSE /\ Len(audit_logs) < MaxAudit
                 /\ users' = db_commit(users, [users EXCEPT ![u].last_login_at = now])
                 /\ Audited(write_audit_log(audit_logs, org.id, u, NULL,
                                            "auth.login", "user", u),
                            [Returned("login", NoToken, 200, 0, now,
                                [ access_token |-> create_access_token(u, org.id, now),
                                  refresh_token |-> create_refresh_token(u, org.id, now) ])
                             EXCEPT !.arg = arg])
                 /\ UNCHANGED <<attendance_sessions, leave_requests, leave_approvals,
                                user_roles, role_permissions, employees, demoVars,
                                today, reqs, app>>

\* A refresh that, like login, stamps last_login_at of the user.
refresh_stamping(refresh_token, now) ==
    LET decoded == decode_token(refresh_token, now)
        Raise(e) == /\ last' = [Raised("refresh", refresh_token, e) EXCEPT !.arg = [now |-> now]]
                    /\ UNCHANGED <<relVars, rbacVars, demoVars, today, reqs, app, audit_down>>
    IN
    IF ~decoded.ok \/ ~assert_token_type(decoded, "refresh")
    THEN Raise(Unauthorized("Invalid refresh token"))
    ELSE IF decoded.sub = NULL \/ decoded.org_id = NULL
    THEN Raise(HTTPException(500, "Internal Server Error"))
    ELSE IF \/ decoded.sub \notin DOMAIN users
            \/ users[decoded.sub].org_id # decoded.org_id
            \/ ~users[decoded.sub].is_active
    THEN Raise(Unauthorized("User inactive or not found"))
    ELSE /\ last' = [Returned("refresh", refresh_token, 200, 0, now,
                        [ access_token |-> create_access_token(decoded.sub, decoded.org_id, now),
                          refresh_token |-> create_refresh_token(decoded.sub, decoded.org_id, now) ])
                     EXCEPT !.arg = [now |-> now]]
         /\ users' = [users EXCEPT ![decoded.sub].last_login_at = now]
         /\ UNCHANGED <<relVars, user_roles, role_permissions, employees, demoVars, today,
                        reqs, app, audit_down>>

refresh(refresh_token, now) ==
    LET decoded == decode_token(refresh_token, now)
        Raise(e) == /\ last' = [Raised("refresh", refresh_token, e) EXCEPT !.arg = [now |-> now]]
                    /\ UNCHANGED <<relVars, rbacVars, demoVars, today, reqs, app, audit_down>>
    IN
    IF ~decoded.ok \/ ~assert_token_type(decoded, "refresh")
    THEN Raise(Unauthorized("Invalid refresh token"))
    ELSE IF decoded.sub = NULL \/ decoded.org_id = NULL
    THEN Raise(HTTPException(500, "Internal Server Error"))
    ELSE IF \/ decoded.sub \notin DOMAIN users
            \/ users[decoded.sub].org_id # decoded.org_id
            \/ ~users[decoded.sub].is_active
    THEN Raise(Unauthorized("User inactive or not found"))
    ELSE /\ last' = [Returned("refresh", refresh_token, 200, 0, now,
                        [ access_token |-> create_access_token(decoded.sub, decoded.org_id, now),
                          refresh_token |-> create_refresh_token(decoded.sub, decoded.org_id, now) ])
                     EXCEPT !.arg = [now |-> now]]
         /\ UNCHANGED <<relVars, rbacVars, demoVars, today, reqs, app, audit_down>>

\* GET /auth/me: the principal, with roles and permissions read again.
me(token, now) ==
    \E p \in get_current_principal(token, now) :
        /\ last' = [ (IF ~p.ok THEN Raised("me", token, p)
                      ELSE Returned("me", token, 200, 0, now,
                               [ user_id |-> p.user_id, org_id |-> p.org_id,
                                 roles |-> _load_roles(p.user_id),
                                 permissions |-> _load_permissions(p.user_id),
                                 employee_id |-> p.employee_id ]))
                     EXCEPT !.arg = [now |-> now] ]
        /\ UNCHANGED <<relVars, rbacVars, demoVars, today, reqs, app, audit_down>>

\* A read-only route declared with Depends(require_permissions(required)): the
\* handler runs, and answers 200 with the principal, only if the gate passes.
guarded_route(required, token, now) ==
    \E p \in get_current_principal(token, now) :
        LET checked == require_permissions(required, p)
            arg == [required |-> required, now |-> now]
        IN
        /\ last' = [ (IF ~checked.ok THEN Raised("guarded_route", token, checked)
                      ELSE Returned("guarded_route", token, 200, 0, now,
                               [ user_id |-> checked.user_id, org_id |-> checked.org_id,
                                 roles |-> checked.roles,
                                 permissions |-> checked.permissions,
                                 employee_id |-> checked.employee_id ]))
                     EXCEPT !.arg = arg ]
        /\ UNCHANGED <<relVars, rbacVars, demoVars, today, reqs, app, audit_down>>

-----------------------------------------------------------------------------
(* app/main.py: login of the in-memory application *)

\* str.strip().lower(), tabulated for the inputs of the model.
StripLower(x) ==
    IF x = " Demo " THEN "demo"
    ELSE IF x = " Admin@Demo.Local " THEN "admin@demo.local"
    ELSE x

\* if not user or str(user["password"]) != payload.password
DemoLoginChecks(email, password) ==
    IF email \notin DOMAIN _DEMO_USERS \/ _DEMO_USERS[email].password # password
    THEN Unauthorized("Invalid credentials")
    ELSE [ok |-> TRUE]

auth_login(org_slug, email_in, password) ==
    LET arg == [org_slug |-> org_slug, email |-> email_in, password |-> password]
        org == StripLower(IF org_slug = "" THEN "demo" ELSE org_slug)
        email == StripLower(email_in)
        access == _issue_token(email)
    IN
    /\ last' = [ (IF org # "demo"
                  THEN Raised("auth_login", NoToken, HTTPException(400, "Unknown org"))
                  ELSE IF ~DemoLoginChecks(email, password).ok
                  THEN Raised("auth_login", NoToken, DemoLoginChecks(email, password))
                  ELSE Returned("auth_login", NoToken, 200, 0, NoTime,
                           [ access_token |-> access,
                             refresh_token |-> DemoRefreshToken(access) ]))
                 EXCEPT !.arg = arg ]
    /\ UNCHANGED <<relVars, rbacVars, demoVars, today, reqs, app, audit_down>>

auth_me(authorization) ==
    LET u == _get_current_user(authorization) IN
    /\ last' = IF ~u.ok THEN Raised("auth_me", authorization, u)
               ELSE Returned("auth_me", authorization, 200, 0, NoTime,
                        [ user_id |-> u.user_id, org_id |-> u.org_id,
                          employee_id |-> u.employee_id ])
    /\ UNCHANGED <<relVars, rbacVars, demoVars, today, reqs, app, audit_down>>

-----------------------------------------------------------------------------
(* The state at start *)

ReqIds == {1, 2}
Idle == [pc |-> "idle"]
NoResponse == Response("none", NoToken, 0, "", <<>>, 0)

InitUsers ==
    [ u \in UserIds |->
        [ org_id |-> UserRows[u].org_id, email |-> UserRows[u].email,
          password_hash |-> hash_password(UserRows[u].password),
          is_active |-> UserRows[u].is_active, last_login_at |-> NoTime ] ]

InitEmployees ==
    { [id |-> "e1", org_id |-> "o1", user_id |-> "u1", manager_employee_id |-> NULL],
      [id |-> "e2", org_id |-> "o1", user_id |-> "u2", manager_employee_id |-> "e1"],
      [id |-> "e3", org_id |-> "o2", user_id |-> "u3", manager_employee_id |-> NULL] }

\* A session row an import created for e2 ahead of the day, with no clock-in yet.
ImportedSession ==
    [ id |-> 1, org_id |-> "o1", employee_id |-> "e2", session_date |-> 1,
      clock_in_at |-> NoTime, clock_out_at |-> NoTime, minutes_worked |-> 0 ]

\* A session row an import created for e1 with its day already worked.
ImportedClosedSession ==
    [ id |-> 1, org_id |-> "o1", employee_id |-> "e1", session_date |-> 1,
      clock_in_at |-> 0, clock_out_at |-> TickSeconds,
      minutes_worked |-> TickSeconds \div 60 ]

InitBase ==
    /\ users = InitUsers
    /\ user_roles = InitUserRoles
    /\ role_permissions = InitRolePermissions
    /\ employees = InitEmployees
    /\ leave_requests = {}
    /\ leave_approvals = {}
    /\ audit_logs = <<>>
    /\ today = 1
    /\ reqs = [r \in ReqIds |-> Idle]
    /\ demo_attendance_sessions = <<>>
    /\ demo_leave_requests = <<>>
    /\ audit_down = FALSE
    /\ last = NoResponse

Init == InitBase /\ attendance_sessions = {} /\ app = Relational

\* The in-memory application starts with its lists empty.
InitDemo == InitBase /\ attendance_sessions = {} /\ app = Demo

\* The attendance table may already hold a row an import created.
InitImported ==
    /\ InitBase
    /\ attendance_sessions \in {{}, {ImportedSession}, {ImportedClosedSession}}
    /\ app = Relational

-----------------------------------------------------------------------------
(* Leave requests, one request at a time *)

DecideLeave ==
    \E token \in BearerTokens, leave_request_id \in 1..MaxRows,
       decision \in Decisions, now \in Times :
        decide_leave(token, leave_request_id, decision, now)

\* Leave applied for one day, of the two leave types of o1.
ApplyLeaveOneDay ==
    \E token \in BearerTokens, leave_type_id \in {"lt_annual", "lt_comp"}, now \in Times :
        apply_leave(token, leave_type_id, 1, 1, now)

NextLeave == ApplyLeaveOneDay \/ DecideLeave

SpecLeave == Init /\ [][NextLeave]_vars

\* Leave applied for with every leave type id and date range of the bounds, by
\* an employee of o1, a manager of o2, a user with no employee row, and with a
\* refresh token.
ApplyTokens ==
    {create_access_token(u, UserRows[u].org_id, 0) : u \in {"u2", "u3", "u4"}}
    \cup {create_refresh_token("u1", "o1", 0)}

ApplyLeaveAnyRange ==
    \E token \in ApplyTokens, leave_type_id \in LeaveTypeIds,
       start_date \in Dates, end_date \in Dates, now \in Times :
        apply_leave(token, leave_type_id, start_date, end_date, now)

NextApply == ApplyLeaveAnyRange

SpecApply == Init /\ [][NextApply]_vars

-----------------------------------------------------------------------------
(* Attendance, one request at a time *)

\* The bearer tokens presented to the attendance routes: the access tokens of
\* two users with an employee row and of one without, and a refresh token.
AttendanceTokens ==
    {create_access_token(u, UserRows[u].org_id, 0) : u \in {"u1", "u2", "u4"}}
    \cup {create_refresh_token("u1", "o1", 0)}

ClockIn ==
    /\ app = Relational
    /\ \E token \in AttendanceTokens, now \in Times : clock_in(token, now)

ClockOut ==
    /\ app = Relational
    /\ \E token \in AttendanceTokens, now \in Times : clock_out(token, now)

DemoClockIn ==
    /\ app = Demo
    /\ \E authorization \in Authorizations, now \in Times : demo_clock_in(authorization, now)

DemoClockOut ==
    /\ app = Demo
    /\ \E authorization \in Authorizations, now \in Times : demo_clock_out(authorization, now)

NextAttendance == ClockIn \/ ClockOut \/ DemoClockIn \/ DemoClockOut \/ NextDay

\* Either application serves the attendance routes.
InitAttendance == InitImported \/ InitDemo

SpecAttendance == InitAttendance /\ [][NextAttendance]_vars

-----------------------------------------------------------------------------
(* Authentication and the permission gate *)

MaxRequired == 2

\* The lists of keys a route may require: up to MaxRequired keys, with
\* repetitions, of which the employee role of o1 holds leave.apply only.
RequiredLists ==
    UNION {[1..n -> {"employee.read", "leave.apply", "leave.approve"}] :
              n \in 0..MaxRequired}

\* Tokens a client may present.  The access token of u1 and what differs from
\* it in one respect: another type or none, another signing key, an expiry
\* between the clock readings, a user that is inactive, unknown or absent, and
\* no org_id; every type also with the other key and the early expiry.
AccessU1 == create_access_token("u1", "o1", 0)

AllTokens ==
    { [AccessU1 EXCEPT !.type = type, !.key = key] :
         type \in {"access", "refresh", "reset", NULL}, key \in {jwt_secret_key, "other-key"} }
    \cup { [AccessU1 EXCEPT !.type = type, !.exp = TickSeconds - 1] :
              type \in {"access", "refresh", "reset", NULL} }
    \cup { [AccessU1 EXCEPT !.sub = sub, !.type = type] :
              sub \in {"u5", "u9", NULL}, type \in {"access", "refresh"} }
    \cup { [AccessU1 EXCEPT !.org_id = NULL] }

\* The tokens the last login or refresh returned.
IssuedTokens ==
    IF last.op \in {"login", "refresh"} /\ last.status = 200
    THEN {last.body.access_token, last.body.refresh_token}
    ELSE {}

Login ==
    /\ app = Relational
    /\ \E org_slug \in OrgSlugs, email \in Emails, password \in Passwords,
          now \in Times : login(org_slug, email, password, now)

Refresh ==
    /\ app = Relational
    /\ \E token \in AllTokens \cup BearerTokens \cup IssuedTokens, now \in Times :
          refresh(token, now)

Me ==
    /\ app = Relational
    /\ \E token \in AllTokens \cup IssuedTokens, now \in Times : me(token, now)

\* GET /attendance/sessions, a route guarded by require_permissions(["employee.read"]).
ListSessions ==
    /\ app = Relational
    /\ \E token \in AllTokens \cup IssuedTokens, now \in Times :
          guarded_route(<<"employee.read">>, token, now)

AuthLogin ==
    /\ app = Demo
    /\ \E org_slug \in {"demo", " Demo ", "", "acme"},
          email \in {"admin@demo.local", " Admin@Demo.Local ", "ghost@demo.local"},
          password \in {"admin123", "ADMIN123", "employee123"} :
            auth_login(org_slug, email, password)

AuthMe ==
    /\ app = Demo
    /\ \E authorization \in Authorizations : auth_me(authorization)

NextAuth == Login \/ Refresh \/ Me \/ ListSessions \/ AuthLogin \/ AuthMe

InitAuth == Init \/ InitDemo

SpecAuth == InitAuth /\ [][NextAuth]_vars

-----------------------------------------------------------------------------
(* The permission gate, for any list of required keys *)

GuardedRoute ==
    \E required \in RequiredLists, token \in BearerTokens, now \in Times :
        guarded_route(required, token, now)

NextGate == GuardedRoute

SpecGate == Init /\ [][NextGate]_vars

-----------------------------------------------------------------------------
(* The list endpoints *)

\* Tables the application only reads.
holidays ==
    { [id |-> "h1", org_id |-> "o1", calendar_id |-> "cal_o1", holiday_date |-> 1],
      [id |-> "h2", org_id |-> "o2", calendar_id |-> "cal_o2", holiday_date |-> 1],
      [id |-> "h3", org_id |-> "o1", calendar_id |-> "cal_o1", holiday_date |-> 2] }

payroll_cycles ==
    { [id |-> "pc1", org_id |-> "o1", code |-> "2024-01", status |-> "open"],
      [id |-> "pc2", org_id |-> "o2", code |-> "2024-01", status |-> "open"] }

leave_balances ==
    { [org_id |-> "o1", employee_id |-> "e1", leave_type_id |-> "lt_annual", balance |-> 10],
      [org_id |-> "o1", employee_id |-> "e2", leave_type_id |-> "lt_annual", balance |-> 5],
      [org_id |-> "o2", employee_id |-> "e3", leave_type_id |-> "lt_other", balance |-> 7],
      [org_id |-> "o2", employee_id |-> "e2", leave_type_id |-> "lt_other", balance |-> 3] }

Min(a, b) == IF a < b THEN a ELSE b

\* ORDER BY ... LIMIT :limit OFFSET :offset.  The sort columns are not kept in
\* the rows, so the page is any choice of as many rows as the query returns.
Page(rows, limit, offset) ==
    LET n == Cardinality(rows)
        k == IF offset >= n THEN 0 ELSE Min(limit, n - offset)
    IN {page \in SUBSET rows : Cardinality(page) = k}

\* The fixed LIMIT of list_leave_requests and list_sessions, and of
\* list_payroll_cycles.
ListLimit == 500
CyclesLimit == 200

\* What a list route answers: the error of the gate, or 200 with a page.
Listed(op, token, principal, arg, now, pages) ==
    /\ IF ~principal.ok
       THEN last' = [Raised(op, token, principal) EXCEPT !.arg = arg]
       ELSE \E page \in pages :
               last' = [Returned(op, token, 200, 0, now, [rows |-> page]) EXCEPT !.arg = arg]
    /\ UNCHANGED <<relVars, rbacVars, demoVars, today, reqs, app, audit_down>>

\* GET /employees
list_employees(token, limit, offset, now) ==
    \E p \in get_current_principal(token, now) :
    LET principal == require_permissions(<<"employee.read">>, p)
        rows == {e \in employees : e.org_id = principal.org_id}
    IN Listed("list_employees", token, principal, [limit |-> limit, offset |-> offset],
              now, Page(rows, limit, offset))

\* GET /employees/{employee_id}/reportees
list_reportees(token, employee_id, now) ==
    \E p \in get_current_principal(token, now) :
    LET principal == require_permissions(<<"employee.read">>, p)
        rows == {e \in employees : /\ e.org_id = principal.org_id
                                   /\ e.manager_employee_id = employee_id}
    IN Listed("list_reportees", token, principal, [employee_id |-> employee_id], now, {rows})

\* The WHERE of list_leave_requests with the org clause left out when an
\* employee is named.
LeaveRequestsWhere_employee_only(lr, org_id, status_filter, employee_id) ==
    /\ employee_id = NULL => lr.org_id = org_id
    /\ status_filter # NULL => lr.status = status_filter
    /\ employee_id # NULL => lr.employee_id = employee_id

\* clauses = ["org_id = :org_id"], plus "status = :status" and
\* "employee_id = :employee_id" when the filters are given, joined by AND.
LeaveRequestsWhere(lr, org_id, status_filter, employee_id) ==
    /\ lr.org_id = org_id
    /\ status_filter # NULL => lr.status = status_filter
    /\ employee_id # NULL => lr.employee_id = employee_id

\* GET /leaves/requests
list_leave_requests(token, status_filter, employee_id, now) ==
    \E p \in get_current_principal(token, now) :
    LET principal == require_permissions(<<"leave.read">>, p)
        rows == {lr \in leave_requests :
                    LeaveRequestsWhere(lr, principal.org_id, status_filter, employee_id)}
    IN Listed("list_leave_requests", token, principal,
              [status_filter |-> status_filter, employee_id |-> employee_id],
              now, Page(rows, ListLimit, 0))

\* GET /leaves/balances/me: SELECT leave_type_id, balance.
my_balances(token, now) ==
    \E p \in get_current_principal(token, now) :
    LET checked == require_permissions(<<"leave.read">>, p)
        principal == IF checked.ok /\ checked.employee_id = NULL
                     THEN HTTPException(400, "User has no employee mapping")
                     ELSE checked
        rows == {b \in leave_balances : /\ b.org_id = principal.org_id
                                        /\ b.employee_id = principal.employee_id}
    IN Listed("my_balances", token, principal, NoArg, now,
              {{[leave_type_id |-> b.leave_type_id, balance |-> b.balance] : b \in rows}})

\* GET /attendance/sessions
list_sessions(token, start_date, end_date, employee_id, now) ==
    \E p \in get_current_principal(token, now) :
    LET checked == require_permissions(<<"employee.read">>, p)
        principal == IF checked.ok /\ end_date < start_date
                     THEN HTTPException(400, "Invalid date range")
                     ELSE checked
        rows == {a \in attendance_sessions :
                    /\ a.org_id = principal.org_id
                    /\ start_date <= a.session_date /\ a.session_date <= end_date
                    /\ employee_id # NULL => a.employee_id = employee_id}
    IN Listed("list_sessions", token, principal,
              [start_date |-> start_date, end_date |-> end_date, employee_id |-> employee_id],
              now, Page(rows, ListLimit, 0))

\* GET /holidays
list_holidays(token, start_date, end_date, now) ==
    \E p \in get_current_principal(token, now) :
    LET principal == require_permissions(<<"employee.read">>, p)
        rows == {h \in holidays :
                    /\ h.org_id = principal.org_id
                    /\ start_date <= h.holiday_date /\ h.holiday_date <= end_date}
    IN Listed("list_holidays", token, principal,
              [start_date |-> start_date, end_date |-> end_date], now, {rows})

\* GET /payroll/cycles
list_payroll_cycles(token, now) ==
    \E p \in get_current_principal(token, now) :
    LET principal == require_permissions(<<"employee.read">>, p)
        rows == {c \in payroll_cycles : c.org_id = principal.org_id}
    IN Listed("list_payroll_cycles", token, principal, NoArg, now,
              Page(rows, CyclesLimit, 0))

\* GET /audit/logs
list_audit_logs(token, limit, now) ==
    \E p \in get_current_principal(token, now) :
    LET principal == require_permissions(<<"employee.read">>, p)
        rows == {i \in 1..Len(audit_logs) : audit_logs[i].org_id = principal.org_id}
    IN Listed("list_audit_logs", token, principal, [limit |-> limit], now,
              {{audit_logs[i] : i \in page} : page \in Page(rows, limit, 0)})

\* Storage after both organizations have used the application: employees, leave
\* requests, sessions and audit rows of o1 and of o2, and an employee of o2
\* whose manager_employee_id names an employee of o1.
ListedEmployees ==
    InitEmployees \cup
    { [id |-> "e4", org_id |-> "o2", user_id |-> NULL, manager_employee_id |-> "e1"] }

ListedLeaveRequests ==
    { [ id |-> 1, org_id |-> "o1", employee_id |-> "e2", leave_type_id |-> "lt_annual",
        status |-> "pending", requested_at |-> 0, decided_at |-> NoTime, updated_at |-> 0 ],
      [ id |-> 2, org_id |-> "o2", employee_id |-> "e3", leave_type_id |-> "lt_other",
        status |-> "pending", requested_at |-> 0, decided_at |-> NoTime, updated_at |-> 0 ],
      [ id |-> 3, org_id |-> "o1", employee_id |-> "e1", leave_type_id |-> "lt_comp",
        status |-> "approved", requested_at |-> 0, decided_at |-> 0, updated_at |-> 0 ] }

ListedSessions ==
    { ImportedSession,
      [ id |-> 2, org_id |-> "o2", employee_id |-> "e3", session_date |-> 1,
        clock_in_at |-> 0, clock_out_at |-> NoTime, minutes_worked |-> 0 ] }

ListedAuditLogs ==
    write_audit_log(
        write_audit_log(<<>>, "o1", "u2", "e2", "leave.apply", "leave_request", 1),
        "o2", "u3", "e3", "leave.apply", "leave_request", 2)

InitLists ==
    /\ users = InitUsers
    /\ user_roles = InitUserRoles
    /\ role_permissions = InitRolePermissions
    /\ employees = ListedEmployees
    /\ leave_requests = ListedLeaveRequests
    /\ leave_approvals = {}
    /\ attendance_sessions = ListedSessions
    /\ audit_logs = ListedAuditLogs
    /\ today = 1
    /\ reqs = [r \in ReqIds |-> Idle]
    /\ demo_attendance_sessions = <<>>
    /\ demo_leave_requests = <<>>
    /\ app = Relational
    /\ audit_down = FALSE
    /\ last = NoResponse

EmployeeFilters == {NULL, "e1", "e2", "e3"}

ListEmployees ==
    \E token \in BearerTokens, limit \in {1, 50}, offset \in {0, 1}, now \in Times :
        list_employees(token, limit, offset, now)

ListReportees ==
    \E token \in BearerTokens, employee_id \in EmployeeFilters \ {NULL}, now \in Times :
        list_reportees(token, employee_id, now)

ListLeaveRequests ==
    \E token \in BearerTokens, status_filter \in {NULL, "pending", "approved"},
       employee_id \in EmployeeFilters, now \in Times :
        list_leave_requests(token, status_filter, employee_id, now)

MyBalances == \E token \in BearerTokens, now \in Times : my_balances(token, now)

ListAttendanceSessions ==
    \E token \in BearerTokens, start_date \in Dates, end_date \in Dates,
       employee_id \in EmployeeFilters, now \in Times :
        list_sessions(token, start_date, end_date, employee_id, now)

ListHolidays ==
    \E token \in BearerTokens, start_date \in Dates, end_date \in Dates, now \in Times :
        list_holidays(token, start_date, end_date, now)

ListPayrollCycles == \E token \in BearerTokens, now \in Times : list_payroll_cycles(token, now)

ListAuditLogs ==
    \E token \in BearerTokens, limit \in {1, 200}, now \in Times :
        list_audit_logs(token, limit, now)

NextLists ==
    \/ ListEmployees \/ ListReportees \/ ListLeaveRequests \/ MyBalances
    \/ ListAttendanceSessions \/ ListHolidays \/ ListPayrollCycles \/ ListAuditLogs

SpecLists == InitLists /\ [][NextLists]_vars

-----------------------------------------------------------------------------
(* src/api/routers/employees.py: create_employee, and the audit trail *)

\* gen_random_uuid() for an employee: an id no row of the table has.
EmployeeIdPool == {"e5"}

\* INSERT INTO employees (...) VALUES (...), org_id the principal's; the row is
\* not linked to a user.
InsertEmployee(new_id, principal, manager_employee_id) ==
    employees \cup
    { [ id |-> new_id, org_id |-> principal.org_id, user_id |-> NULL,
        manager_employee_id |-> manager_employee_id ] }

\* POST /employees.  manager_employee_id is a foreign key to employees.id: an
\* id no employee has makes the INSERT raise before the commit.
create_employee(token, manager_employee_id, now) ==
    \E p \in get_current_principal(token, now) :
    LET principal == require_permissions(<<"employee.write">>, p)
        arg == [manager_employee_id |-> manager_employee_id, now |-> now]
        Raise(e) == /\ last' = [Raised("create_employee", token, e) EXCEPT !.arg = arg]
                    /\ UNCHANGED <<relVars, rbacVars, demoVars, today, reqs, app, audit_down>>
    IN
    IF ~principal.ok THEN Raise(principal)
    ELSE IF /\ manager_employee_id # NULL
            /\ manager_employee_id \notin {e.id : e \in employees}
         THEN Raise(HTTPException(500, "Internal Server Error"))
    ELSE \E new_id \in EmployeeIdPool \ {e.id : e \in employees} :
         /\ Len(audit_logs) < MaxAudit
         /\ employees' = db_commit(employees,
                                   InsertEmployee(new_id, principal, manager_employee_id))
         /\ Audited(write_audit_log(audit_logs, principal.org_id, principal.user_id,
                                    principal.employee_id, "employee.create",
                                    "employee", new_id),
                    [ Returned("create_employee", token, 201, new_id, now,
                               CHOOSE e \in InsertEmployee(new_id, principal,
                                                           manager_employee_id) :
                                   e.id = new_id)
                      EXCEPT !.arg = arg ])
         /\ UNCHANGED <<attendance_sessions, leave_requests, leave_approvals, users,
                        user_roles, role_permissions, demoVars, today, reqs, app>>

\* The callers of the audited operations: a manager and an employee of o1.
AuditTokens == {create_access_token(u, UserRows[u].org_id, 0) : u \in {"u1", "u2"}}
AuditTimes == {0}

AuditedLogin ==
    \E password \in Passwords, now \in AuditTimes : login("demo", "A@x", password, now)

AuditedCreateEmployee ==
    \E token \in AuditTokens, manager_employee_id \in {"e1", "e9"}, now \in AuditTimes :
        create_employee(token, manager_employee_id, now)

AuditedClockIn == \E token \in AuditTokens, now \in AuditTimes : clock_in(token, now)

AuditedClockOut == \E token \in AuditTokens, now \in AuditTimes : clock_out(token, now)

AuditedApplyLeave ==
    \E token \in AuditTokens, leave_type_id \in {"lt_comp", "lt_unknown"}, now \in AuditTimes :
        apply_leave(token, leave_type_id, 1, 1, now)

AuditedDecideLeave ==
    \E leave_request_id \in 1..MaxRows, decision \in {"approved", "maybe"},
       now \in AuditTimes :
        decide_leave(create_access_token("u1", "o1", 0), leave_request_id, decision, now)

\* A leave request of e2 waiting for a decision.
PendingLeaveRequest ==
    [ id |-> 1, org_id |-> "o1", employee_id |-> "e2", leave_type_id |-> "lt_annual",
      status |-> "pending", requested_at |-> 0, decided_at |-> NoTime, updated_at |-> 0 ]

\* A session of e2 clocked in today and not yet clocked out.
OpenSession ==
    [ id |-> 1, org_id |-> "o1", employee_id |-> "e2", session_date |-> 1,
      clock_in_at |-> 0, clock_out_at |-> NoTime, minutes_worked |-> 0 ]

\* Storage with or without a pending leave request and an open session; the
\* first INSERT INTO audit_logs of the behaviour may raise.
InitAudit ==
    /\ users = InitUsers
    /\ user_roles = InitUserRoles
    /\ role_permissions = InitRolePermissions
    /\ employees = InitEmployees
    /\ leave_requests \in {{}, {PendingLeaveRequest}}
    /\ leave_approvals = {}
    /\ attendance_sessions \in {{}, {OpenSession}}
    /\ audit_logs = <<>>
    /\ today = 1
    /\ reqs = [r \in ReqIds |-> Idle]
    /\ demo_attendance_sessions = <<>>
    /\ demo_leave_requests = <<>>
    /\ app = Relational
    /\ audit_down \in BOOLEAN
    /\ last = NoResponse

NextAudit ==
    \/ AuditedLogin \/ AuditedCreateEmployee \/ AuditedClockIn \/ AuditedClockOut
    \/ AuditedApplyLeave \/ AuditedDecideLeave

SpecAudit == InitAudit /\ [][NextAudit]_vars

-----------------------------------------------------------------------------
(* Two organizations writing to the same tables *)

\* A manager of o1 and a manager of o2.
TenantTokens == {create_access_token(u, UserRows[u].org_id, 0) : u \in {"u1", "u3"}}

\* Rows of o2 already in storage: a pending leave request and an open session
\* of e3.
OtherOrgLeaveRequest ==
    [ id |-> 1, org_id |-> "o2", employee_id |-> "e3", leave_type_id |-> "lt_other",
      status |-> "pending", requested_at |-> 0, decided_at |-> NoTime, updated_at |-> 0 ]

OtherOrgSession ==
    [ id |-> 1, org_id |-> "o2", employee_id |-> "e3", session_date |-> 1,
      clock_in_at |-> 0, clock_out_at |-> NoTime, minutes_worked |-> 0 ]

InitTenants ==
    /\ users = InitUsers
    /\ user_roles = InitUserRoles
    /\ role_permissions = InitRolePermissions
    /\ employees = InitEmployees
    /\ leave_requests = {OtherOrgLeaveRequest}
    /\ leave_approvals = {}
    /\ attendance_sessions = {OtherOrgSession}
    /\ audit_logs = <<>>
    /\ today = 1
    /\ reqs = [r \in ReqIds |-> Idle]
    /\ demo_attendance_sessions = <<>>
    /\ demo_leave_requests = <<>>
    /\ app = Relational
    /\ audit_down = FALSE
    /\ last = NoResponse

TenantCreateEmployee ==
    \E token \in TenantTokens, manager_employee_id \in {NULL, "e1", "e3"}, now \in AuditTimes :
        create_employee(token, manager_employee_id, now)

TenantApplyLeave ==
    \E token \in TenantTokens, leave_type_id \in {"lt_annual", "lt_other"}, now \in AuditTimes :
        apply_leave(token, leave_type_id, 1, 1, now)

TenantDecideLeave ==
    \E token \in TenantTokens, leave_request_id \in 1..MaxRows,
       decision \in {"approved", "rejected"}, now \in AuditTimes :
        decide_leave(token, leave_request_id, decision, now)

TenantClockIn == \E token \in TenantTokens, now \in AuditTimes : clock_in(token, now)

TenantClockOut == \E token \in TenantTokens, now \in AuditTimes : clock_out(token, now)

NextTenants ==
    \/ TenantCreateEmployee \/ TenantApplyLeave \/ TenantDecideLeave
    \/ TenantClockIn \/ TenantClockOut

SpecTenants == InitTenants /\ [][NextTenants]_vars

-----------------------------------------------------------------------------
(* Requests the dependencies reject *)

\* The callers: a manager and an employee of o1, and tokens the resolver
\* refuses: a wrong signing key, a refresh token, an inactive user, and a token
\* that expires between the two clock readings.
RejectTokens ==
    AuditTokens
    \cup { [AccessU1 EXCEPT !.key = "other-key"], [AccessU1 EXCEPT !.type = "refresh"],
           [AccessU1 EXCEPT !.sub = "u5"], [AccessU1 EXCEPT !.exp = TickSeconds - 1] }

\* Storage holds a pending leave request and an open session of e2.
InitRejected ==
    /\ InitAudit
    /\ leave_requests = {PendingLeaveRequest}
    /\ attendance_sessions = {OpenSession}
    /\ ~audit_down

RejectLogin ==
    \E org_slug \in OrgSlugs, email \in {"A@x", "zz@x"}, password \in Passwords,
       now \in AuditTimes : login(org_slug, email, password, now)

RejectCreateEmployee ==
    \E token \in RejectTokens, now \in Times : create_employee(token, "e9", now)

RejectClockIn == \E token \in RejectTokens, now \in Times : clock_in(token, now)

RejectClockOut == \E token \in RejectTokens, now \in Times : clock_out(token, now)

RejectApplyLeave ==
    \E token \in RejectTokens, now \in Times : apply_leave(token, "lt_annual", 1, 1, now)

RejectDecideLeave ==
    \E token \in RejectTokens, now \in Times : decide_leave(token, 1, "approved", now)

NextRejected ==
    \/ RejectLogin \/ RejectCreateEmployee \/ RejectClockIn \/ RejectClockOut
    \/ RejectApplyLeave \/ RejectDecideLeave

SpecRejected == InitRejected /\ [][NextRejected]_vars

-----------------------------------------------------------------------------
(* Attendance in the relational application, over several days *)

DayTokens == {create_access_token(u, UserRows[u].org_id, 0) : u \in {"u1", "u2"}}

\* The first day starts with no session, or with a session of e2 that an
\* import created or that e2 opened.
InitDays ==
    /\ InitBase
    /\ attendance_sessions \in {{}, {ImportedSession}, {OpenSession}}
    /\ app = Relational

DayClockIn == \E token \in DayTokens, now \in Times : clock_in(token, now)

DayClockOut == \E token \in DayTokens, now \in Times : clock_out(token, now)

NextDays == DayClockIn \/ DayClockOut \/ NextDay

SpecDays == InitDays /\ [][NextDays]_vars

-----------------------------------------------------------------------------
(* Attendance in the in-memory application, over several days *)

NextDemoAttendance == DemoClockIn \/ DemoClockOut \/ NextDay

SpecDemoAttendance == InitDemo /\ [][NextDemoAttendance]_vars

-----------------------------------------------------------------------------
(* Leave requests in the in-memory application *)

DemoApplyLeave ==
    \E authorization \in Authorizations, now \in Times :
        demo_apply_leave(authorization, "lt_annual", now)

DemoDecideLeave ==
    \E authorization \in Authorizations, leave_request_id \in 1..(MaxRows + 1),
       decision \in {"approved", " Approved ", "REJECTED", "maybe"}, now \in Times :
        demo_decide_leave(authorization, leave_request_id, decision, now)

NextDemoLeave == DemoApplyLeave \/ DemoDecideLeave

SpecDemoLeave == InitDemo /\ [][NextDemoLeave]_vars

-----------------------------------------------------------------------------
(* Grants and users changed in storage between requests *)

\* Storage rows an administrator changes outside the API: a role of u2, a
\* permission of the employee role, and the users row of u2.
ChangedUserRoles == {<<"u2", "emp_o1">>, <<"u2", "mgr_o1">>}
ChangedRolePermissions == {<<"emp_o1", "leave.apply">>, <<"emp_o1", "employee.read">>}

GrantUserRole ==
    /\ \E ur \in ChangedUserRoles \ user_roles : user_roles' = user_roles \cup {ur}
    /\ UNCHANGED <<relVars, users, role_permissions, employees, demoVars, today, reqs, app, audit_down, last>>

RevokeUserRole ==
    /\ \E ur \in ChangedUserRoles \cap user_roles : user_roles' = user_roles \ {ur}
    /\ UNCHANGED <<relVars, users, role_permissions, employees, demoVars, today, reqs, app, audit_down, last>>

GrantRolePermission ==
    /\ \E rp \in ChangedRolePermissions \ role_permissions :
          role_permissions' = role_permissions \cup {rp}
    /\ UNCHANGED <<relVars, users, user_roles, employees, demoVars, today, reqs, app, audit_down, last>>

RevokeRolePermission ==
    /\ \E rp \in ChangedRolePermissions \cap role_permissions :
          role_permissions' = role_permissions \ {rp}
    /\ UNCHANGED <<relVars, users, user_roles, employees, demoVars, today, reqs, app, audit_down, last>>

\* UPDATE users SET is_active = false WHERE id = 'u2'
DeactivateUser ==
    /\ "u2" \in DOMAIN users /\ users["u2"].is_active
    /\ users' = [users EXCEPT !["u2"].is_active = FALSE]
    /\ UNCHANGED <<relVars, user_roles, role_permissions, employees, demoVars, today, reqs,
                   app, audit_down, last>>

\* DELETE FROM users WHERE id = 'u2'
RemoveUser ==
    /\ "u2" \in DOMAIN users
    /\ users' = [u \in DOMAIN users \ {"u2"} |-> users[u]]
    /\ UNCHANGED <<relVars, user_roles, role_permissions, employees, demoVars, today, reqs,
                   app, audit_down, last>>

\* The tokens login issued to u2 and u1 before any change.
TokensBeforeChange ==
    { create_access_token("u2", "o1", 0), create_refresh_token("u2", "o1", 0),
      create_access_token("u1", "o1", 0) }

MeAfterChange == \E token \in TokensBeforeChange, now \in Times : me(token, now)

GuardedAfterChange ==
    \E required \in {<<"leave.apply">>, <<"employee.read">>},
       token \in TokensBeforeChange, now \in Times : guarded_route(required, token, now)

RefreshAfterChange == \E token \in TokensBeforeChange, now \in Times : refresh(token, now)

NextStorage ==
    \/ GrantUserRole \/ RevokeUserRole \/ GrantRolePermission \/ RevokeRolePermission
    \/ DeactivateUser \/ RemoveUser
    \/ MeAfterChange \/ GuardedAfterChange \/ RefreshAfterChange

SpecStorage == Init /\ [][NextStorage]_vars

-----------------------------------------------------------------------------
(* Interleaved requests: each handler in its own database session.  A request
   in flight keeps what it read (principal, the row of its SELECT) in reqs[r];
   its UPDATE/INSERT and db.commit() are one step, as no other session sees a
   write before the commit, and an UPDATE of a row another session has written
   waits for that session's commit and then applies to the committed row. *)

\* The interleaving specifications draw their callers and clock readings from
\* smaller sets: a manager and an employee of o1, at one instant.
RaceTokens == {create_access_token(u, UserRows[u].org_id, 0) : u \in {"u1", "u2"}}
RaceTimes == {0}

ApplyLeaveRace ==
    \E token \in RaceTokens, now \in RaceTimes : apply_leave(token, "lt_annual", 1, 1, now)

\* The approvers: the two callers, and a manager with no employee row.
DecideTokens == RaceTokens \cup {create_access_token("u4", "o1", 0)}

\* decide_leave up to its SELECT and the checks on what it read.
DecideSelect(r) ==
    \E token \in DecideTokens, leave_request_id \in 1..MaxRows,
       decision \in Decisions, now \in RaceTimes :
    \E p \in get_current_principal(token, now) :
    LET principal == require_permissions(<<"leave.approve">>, p)
        lr == SelectLeaveRequest(principal.org_id, leave_request_id)
        checks == DecideChecks(lr, principal)
        Raise(e) == /\ last' = [Raised("decide_leave", token, e) EXCEPT !.entity = leave_request_id]
                    /\ UNCHANGED <<relVars, rbacVars, demoVars, today, reqs, app, audit_down>>
    IN
    /\ reqs[r].pc = "idle"
    /\ IF ~principal.ok THEN Raise(principal)
       ELSE IF decision \notin {"approved", "rejected"}
            THEN Raise(HTTPException(400, "Invalid decision"))
       ELSE IF ~checks.ok THEN Raise(checks)
       ELSE /\ reqs' = [reqs EXCEPT ![r] =
                          [ pc |-> "write", op |-> "decide_leave", token |-> token,
                            principal |-> principal, id |-> leave_request_id,
                            decision |-> decision, now |-> now ]]
            /\ UNCHANGED <<relVars, rbacVars, demoVars, today, last, app, audit_down>>

\* decide_leave's UPDATE, INSERT and db.commit().
DecideCommit(r) ==
    LET q == reqs[r] IN
    /\ q.pc = "write" /\ q.op = "decide_leave"
    /\ Cardinality(leave_approvals) < MaxRows
    /\ leave_requests' = UpdateLeaveRequest(leave_requests, q.id, q.decision, q.now)
    /\ leave_approvals' = InsertLeaveApproval(leave_approvals, q.principal.org_id, q.id,
                                              q.principal.employee_id, q.decision, q.now)
    /\ reqs' = [reqs EXCEPT ![r].pc = "audit"]
    /\ UNCHANGED <<attendance_sessions, audit_logs, rbacVars, demoVars, today, last, app, audit_down>>

\* decide_leave's write_audit_log and its response.
DecideAudit(r) ==
    LET q == reqs[r] IN
    /\ q.pc = "audit" /\ q.op = "decide_leave"
    /\ Len(audit_logs) < MaxAudit
    /\ audit_logs' = write_audit_log(audit_logs, q.principal.org_id, q.principal.user_id,
                                     q.principal.employee_id, "leave.decide",
                                     "leave_request", q.id)
    /\ last' = Returned("decide_leave", q.token, 200, q.id, q.now,
                        CHOOSE x \in leave_requests : x.id = q.id)
    /\ reqs' = [reqs EXCEPT ![r] = Idle]
    /\ UNCHANGED <<attendance_sessions, leave_requests, leave_approvals, rbacVars,
                   demoVars, today, app, audit_down>>

NextLeaveRace ==
    \/ ApplyLeaveRace
    \/ \E r \in ReqIds : DecideSelect(r)
    \/ \E r \in ReqIds : DecideCommit(r)
    \/ \E r \in ReqIds : DecideAudit(r)

SpecLeaveRace == Init /\ [][NextLeaveRace]_vars

\* clock_in up to its SELECT and the test on the row it read.
ClockInSelect(r) ==
    \E token \in RaceTokens, now \in RaceTimes :
    \E p \in get_current_principal(token, now) :
    LET Raise(e) == /\ last' = Raised("clock_in", token, e)
                    /\ UNCHANGED <<relVars, rbacVars, demoVars, today, reqs, app, audit_down>>
    IN
    /\ reqs[r].pc = "idle"
    /\ IF ~p.ok THEN Raise(p)
       ELSE IF p.employee_id = NULL
            THEN Raise(HTTPException(400, "User has no employee mapping"))
       ELSE \E existing \in SelectSession(p.org_id, p.employee_id, today) :
            IF AlreadyClockedIn(existing) THEN Raise(HTTPException(400, "Already clocked in"))
            ELSE /\ reqs' = [reqs EXCEPT ![r] =
                               [ pc |-> "write", op |-> "clock_in", token |-> token,
                                 principal |-> p, existing |-> existing,
                                 today |-> today, now |-> now, id |-> 0, row |-> NoRow ]]
                 /\ UNCHANGED <<relVars, rbacVars, demoVars, today, last, app, audit_down>>

\* clock_in's UPDATE or INSERT and db.commit().
ClockInCommit(r) ==
    LET q == reqs[r] IN
    /\ q.pc = "write" /\ q.op = "clock_in"
    /\ Cardinality(attendance_sessions) < MaxRows \/ q.existing # NoRow
    /\ attendance_sessions' =
           ClockInWrite(attendance_sessions, q.existing, q.principal, q.today, q.now)
    /\ reqs' = [reqs EXCEPT ![r] =
                    [ q EXCEPT !.pc = "audit",
                               !.id = ClockInRowId(attendance_sessions, q.existing),
                               !.row = CHOOSE s \in attendance_sessions' :
                                          s.id = ClockInRowId(attendance_sessions, q.existing) ]]
    /\ UNCHANGED <<leave_requests, leave_approvals, audit_logs, rbacVars, demoVars,
                   today, last, app, audit_down>>

\* clock_in's write_audit_log and its response.
ClockInAudit(r) ==
    LET q == reqs[r] IN
    /\ q.pc = "audit" /\ q.op = "clock_in"
    /\ Len(audit_logs) < MaxAudit
    /\ audit_logs' = write_audit_log(audit_logs, q.principal.org_id, q.principal.user_id,
                                     q.principal.employee_id, "attendance.clock_in",
                                     "attendance_session", q.id)
    /\ last' = Returned("clock_in", q.token, 200, q.id, q.now, q.row)
    /\ reqs' = [reqs EXCEPT ![r] = Idle]
    /\ UNCHANGED <<attendance_sessions, leave_requests, leave_approvals, rbacVars,
                   demoVars, today, app, audit_down>>

ClockOutRace == \E token \in RaceTokens, now \in RaceTimes : clock_out(token, now)

NextAttendanceRace ==
    \/ \E r \in ReqIds : ClockInSelect(r)
    \/ \E r \in ReqIds : ClockInCommit(r)
    \/ \E r \in ReqIds : ClockInAudit(r)
    \/ ClockOutRace
    \/ NextDay

SpecAttendanceRace == InitImported /\ [][NextAttendanceRace]_vars

-----------------------------------------------------------------------------
(* Properties *)

\* Whether the bearer token passes the gate of a route that requires `key`.
Authorized(token, key) ==
    \E p \in get_current_principal(token, 0) : require_permissions(<<key>>, p).ok

ApprovalsOf(table, id) == {a \in table : a.leave_request_id = id}

\* A decide_leave step on a request that is already approved or rejected
\* succeeds for nobody and changes neither table; for a caller who holds
\* leave.approve in the request's org it fails with 400.  A decide_leave step
\* that succeeds found the request pending, sets its status to the decision,
\* leaves every other row alone and adds one leave_approvals row, for it.
C1_DecideStep ==
    last'.op = "decide_leave" =>
        LET id == last'.entity
            decided == {r \in leave_requests : r.id = id /\ r.status # "pending"}
        IN
        /\ decided # {} =>
              /\ last'.status # 200
              /\ leave_requests' = leave_requests
              /\ leave_approvals' = leave_approvals
        /\ ( /\ Authorized(last'.token, "leave.approve")
             /\ \E r \in decided : r.org_id = last'.token.org_id ) => last'.status = 400
        /\ last'.status = 200 =>
              \E r \in leave_requests :
                 /\ r.id = id /\ r.status = "pending"
                 /\ \E r2 \in leave_requests' :
                       /\ r2.id = id /\ r2 = last'.body
                       /\ r2.status \in {"approved", "rejected"}
                       /\ leave_requests' = (leave_requests \ {r}) \cup {r2}
                 /\ leave_approvals \subseteq leave_approvals'
                 /\ \E a \in leave_approvals' :
                       /\ leave_approvals' \ leave_approvals = {a}
                       /\ a.leave_request_id = id /\ a.decision = last'.body.status

\* A request that has left pending keeps its row as it is, and no request has
\* two leave_approvals rows.
C1_Once ==
    /\ \A r \in leave_requests : r.status # "pending" => r \in leave_requests'
    /\ \A r \in leave_requests' : Cardinality(ApprovalsOf(leave_approvals', r.id)) <= 1

\* C1: with requests run one at a time, decide_leave on a request already
\* approved or rejected fails with 400 and changes neither leave_requests nor
\* leave_approvals; on a pending request it sets the status to the decision
\* exactly once and appends exactly one leave_approvals row for it.
C1_DecideOnce == [][C1_DecideStep /\ C1_Once]_vars

\* A second decision on a request an approver already decided was refused.
C1_Witness ==
    /\ last.op = "decide_leave" /\ last.status = 400
    /\ last.detail = "Leave request is not pending"
    /\ \E a \in leave_approvals : a.leave_request_id = last.entity

\* C2: when two decide_leave requests for the same pending request interleave,
\* the request is still decided once: no request has two leave_approvals rows,
\* and no decision is written over a status that has already left pending.
C2_DecidedOnce ==
    [][ /\ \A r \in leave_requests' : Cardinality(ApprovalsOf(leave_approvals', r.id)) <= 1
        /\ \A r \in leave_requests : r.status # "pending" => r \in leave_requests' ]_vars

SessionsOf(table, org_id, employee_id, d) ==
    {s \in table : s.org_id = org_id /\ s.employee_id = employee_id /\ s.session_date = d}

IsOpen(s) == s.clock_in_at # NoTime /\ s.clock_out_at = NoTime

\* C4: when two clock_in requests of one employee on one date interleave,
\* attendance_sessions still holds at most one row for that (org, employee,
\* date), and so never two open rows.
C4_OneRowPerDay ==
    \A s \in attendance_sessions :
        Cardinality(SessionsOf(attendance_sessions, s.org_id, s.employee_id, s.session_date)) <= 1


\* The principals a bearer token that has not expired resolves to.
CallerOf(token) == {p \in get_current_principal(token, 0) : p.ok}

\* The step is a run of the handler `op`: it set the response and the date stayed.
Handled(op) == last'.op = op /\ today' = today

OpenSessions(table, org_id, employee_id, d) ==
    {s \in SessionsOf(table, org_id, employee_id, d) : IsOpen(s)}

C3_OneOpen ==
    \A s \in attendance_sessions :
        Cardinality(OpenSessions(attendance_sessions, s.org_id, s.employee_id,
                                 s.session_date)) <= 1

C3_ClockInStep ==
    Handled("clock_in") =>
        \A p \in CallerOf(last'.token) :
            OpenSessions(attendance_sessions, p.org_id, p.employee_id, today) # {} =>
                /\ last'.status = 400 /\ last'.detail = "Already clocked in"
                /\ attendance_sessions' = attendance_sessions

\* C3: with requests run one at a time, every (org, employee, date) has at
\* most one session with clock_in_at set and clock_out_at null, and a clock_in
\* issued while the caller's session for the date is open fails with 400
\* 'Already clocked in' and leaves attendance_sessions as it was.
C3_AtMostOneOpen == []C3_OneOpen /\ [][C3_ClockInStep]_vars

\* A clock_in was refused while the caller's session of the day was open.
C3_Witness ==
    /\ last.op = "clock_in" /\ last.status = 400 /\ last.detail = "Already clocked in"
    /\ \E p \in CallerOf(last.token) :
          OpenSessions(attendance_sessions, p.org_id, p.employee_id, today) # {}

\* C5 as stated: a clock_in on a day whose session is closed succeeds and
\* rewrites clock_in_at of that row without adding a row, and 400 'Already
\* clocked in' is returned only while the session is open.
C5_ReopensClosed ==
    [][ Handled("clock_in") =>
          \A p \in CallerOf(last'.token) :
             LET rows == SessionsOf(attendance_sessions, p.org_id, p.employee_id, today) IN
             /\ \A s \in rows :
                   (s.clock_in_at # NoTime /\ s.clock_out_at # NoTime) =>
                       /\ last'.status = 200
                       /\ attendance_sessions' =
                             (attendance_sessions \ {s})
                                 \cup {[s EXCEPT !.clock_in_at = last'.now]}
             /\ (last'.status = 400 /\ last'.detail = "Already clocked in") =>
                   \E s \in rows : IsOpen(s) ]_vars

\* C5: a clock_in on a day whose session has clock_in_at set, whether the
\* session is open or closed, fails with 400 'Already clocked in' and changes
\* no row; clock_in rewrites clock_in_at of the day's existing row, adding no
\* row, only when that row's clock_in_at is null; and 400 'Already clocked in'
\* is returned only when the day's row has clock_in_at set.
C5_RefusesOnceClockedIn ==
    [][ Handled("clock_in") =>
          \A p \in CallerOf(last'.token) :
             LET rows == SessionsOf(attendance_sessions, p.org_id, p.employee_id, today) IN
             /\ \A s \in rows :
                   /\ s.clock_in_at # NoTime =>
                         /\ last'.status = 400 /\ last'.detail = "Already clocked in"
                         /\ attendance_sessions' = attendance_sessions
                   /\ s.clock_in_at = NoTime =>
                         /\ last'.status = 200 /\ last'.now # NoTime
                         /\ attendance_sessions' =
                               (attendance_sessions \ {s})
                                   \cup {[s EXCEPT !.clock_in_at = last'.now]}
             /\ (last'.status = 400 /\ last'.detail = "Already clocked in") =>
                   \E s \in rows : s.clock_in_at # NoTime ]_vars

\* A clock_in was refused on a day whose session the caller had already closed.
C5_Witness ==
    /\ last.op = "clock_in" /\ last.status = 400 /\ last.detail = "Already clocked in"
    /\ \E p \in CallerOf(last.token) :
          \E s \in SessionsOf(attendance_sessions, p.org_id, p.employee_id, today) :
              s.clock_in_at # NoTime /\ s.clock_out_at # NoTime


\* The user of the in-memory application an Authorization header resolves to.
DemoCallerOf(authorization) ==
    IF _get_current_user(authorization).ok THEN {_get_current_user(authorization)} ELSE {}

\* The in-memory sessions of an employee: all, and those of one date.
DemoSessionsOf(sessions, employee_id) ==
    {i \in 1..Len(sessions) : sessions[i].employee_id = employee_id}

\* clock_out of the relational application, for a caller mapped to an employee,
\* is refused with 400 and writes nothing when the day has no session, or the
\* day's session has no clock_in_at, or it already has clock_out_at.
C6_RelationalRefused ==
    Handled("clock_out") =>
        \A p \in CallerOf(last'.token) :
            LET rows == SessionsOf(attendance_sessions, p.org_id, p.employee_id, today) IN
            ( /\ p.employee_id # NULL
              /\ \/ rows = {}
                 \/ \E s \in rows : s.clock_in_at = NoTime \/ s.clock_out_at # NoTime ) =>
                /\ last'.status = 400
                /\ attendance_sessions' = attendance_sessions
                /\ audit_logs' = audit_logs

IsFlooredMinutes(m, d) ==
    IF d < 0 THEN m = 0 ELSE m >= 0 /\ 60 * m <= d /\ d < 60 * m + 60

\* C7: a clock_out that succeeds at T1 on a session clocked in at T0 stores
\* clock_out_at = T1 and minutes_worked = max(0, floor((T1 - T0) / 60)) in that
\* session, in both applications, and no stored minutes_worked is negative,
\* also when T1 < T0.
C7_MinutesWorked ==
    [][ /\ (Handled("clock_out") /\ last'.status = 200) =>
              \E s \in attendance_sessions :
                  /\ s.id = last'.entity
                  /\ last'.body \in attendance_sessions'
                  /\ last'.body.clock_out_at = last'.now
                  /\ IsFlooredMinutes(last'.body.minutes_worked, last'.now - s.clock_in_at)
        /\ (Handled("demo_clock_out") /\ last'.status = 200) =>
              \E i \in 1..Len(demo_attendance_sessions) :
                  /\ demo_attendance_sessions[i].id = last'.entity
                  /\ demo_attendance_sessions'[i] = last'.body
                  /\ FromIso(last'.body.clock_out_at) = last'.now
                  /\ IsFlooredMinutes(last'.body.minutes_worked,
                         last'.now - FromIso(demo_attendance_sessions[i].clock_in_at))
        /\ \A s \in attendance_sessions' : s.minutes_worked >= 0
        /\ \A i \in 1..Len(demo_attendance_sessions') :
              demo_attendance_sessions'[i].minutes_worked >= 0 ]_vars

\* A clock_out succeeded at a clock reading earlier than the session's clock-in.
C7_Witness ==
    /\ last.op = "clock_out" /\ last.status = 200
    /\ last.body.clock_out_at < last.body.clock_in_at
    /\ last.body \in attendance_sessions


\* The principals a bearer token resolves to at the clock reading `now`.
PrincipalsAt(token, now) == {p \in get_current_principal(token, now) : p.ok}

\* C8: a route guarded by require_permissions(required) runs its handler for
\* an authenticated principal if and only if every key of required is among
\* the principal's permissions, whatever else the principal holds; otherwise
\* the request fails with 403, the response lists exactly the keys of required
\* the principal lacks, and the handler has not run.
C8_GateIsConjunction ==
    [][ Handled("guarded_route") =>
          \A p \in PrincipalsAt(last'.token, last'.arg.now) :
             LET required == last'.arg.required
                 lacks(k) == k \notin p.permissions
             IN
             IF \A i \in 1..Len(required) : required[i] \in p.permissions
             THEN /\ last'.status = 200
                  /\ last'.body.user_id = p.user_id
             ELSE /\ last'.status = 403
                  /\ last'.missing = SelectSeq(required, lacks)
                  /\ last'.body = NoBody ]_vars

\* The gate refused a principal that holds one of two required keys, and the
\* response lists the other.
C8_Witness ==
    /\ last.op = "guarded_route" /\ last.status = 403
    /\ Len(last.arg.required) = 2 /\ Len(last.missing) = 1
    /\ \E p \in PrincipalsAt(last.token, last.arg.now) :
          \E i \in 1..2 : last.arg.required[i] \in p.permissions

\* C9: a request that presents a bearer token whose type is not 'access' is
\* answered 401 on every route that resolves the principal; when the token is
\* signed by the server and has not expired the 401 is 'Invalid access token'.
\* So the refresh token login or refresh returns is never accepted as a bearer.
C9_OnlyAccessTokens ==
    [][ (Handled("me") \/ Handled("guarded_route")) =>
          (last'.token.type # "access" =>
              /\ last'.status = 401
              /\ last'.body = NoBody
              /\ ( last'.token.key = jwt_secret_key /\ last'.token.exp >= last'.arg.now ) =>
                     last'.detail = "Invalid access token") ]_vars

\* The refresh token a login returned was presented as a bearer and refused.
C9_Witness ==
    /\ last.op = "me" /\ last.status = 401 /\ last.detail = "Invalid access token"
    /\ \E u \in UserIds, now \in Times :
          /\ users[u].is_active /\ users[u].last_login_at = now
          /\ last.token = create_refresh_token(u, users[u].org_id, now)

\* The users of the org of a slug whose email is the given one up to case.
UsersMatching(org_slug, email) ==
    {u \in DOMAIN users :
        /\ \E o \in organizations : o.slug = org_slug /\ users[u].org_id = o.id
        /\ Lower(users[u].email) = Lower(email)}

\* C10: for a known org, login answers 401 'Invalid credentials' with no
\* token and changes no stored row, whether the email matches no user, an
\* inactive user, or an active user whose password is not the one given; the
\* three responses are the same.  The in-memory login does so for an unknown
\* email and for a wrong password.
C10_UniformRejection ==
    [][ /\ Handled("login") =>
            LET a == last'.arg
                matching == UsersMatching(a.org_slug, a.email)
            IN
            ( /\ \E o \in organizations : o.slug = a.org_slug
              /\ \A u \in matching :
                    \/ ~users[u].is_active
                    \/ users[u].password_hash # hash_password(a.password) ) =>
                /\ last'.status = 401 /\ last'.detail = "Invalid credentials"
                /\ last'.body = NoBody /\ last'.missing = <<>>
                /\ users' = users /\ audit_logs' = audit_logs
        /\ Handled("auth_login") =>
            LET a == last'.arg IN
            ( /\ StripLower(IF a.org_slug = "" THEN "demo" ELSE a.org_slug) = "demo"
              /\ \/ StripLower(a.email) \notin DOMAIN _DEMO_USERS
                 \/ _DEMO_USERS[StripLower(a.email)].password # a.password ) =>
                /\ last'.status = 401 /\ last'.detail = "Invalid credentials"
                /\ last'.body = NoBody /\ last'.missing = <<>>
                /\ UNCHANGED <<demo_attendance_sessions, demo_leave_requests>> ]_vars

\* A login with the right password of an inactive user was answered 401.
C10_Witness ==
    /\ last.op = "login" /\ last.status = 401 /\ last.detail = "Invalid credentials"
    /\ \E u \in UsersMatching(last.arg.org_slug, last.arg.email) :
          ~users[u].is_active /\ users[u].password_hash = hash_password(last.arg.password)


Served(op) == Handled(op) /\ UNCHANGED rbacVars

\* The roles a user has and the permission keys those roles grant, in storage now.
RolesHeld(user_id) == {ur[2] : ur \in {x \in user_roles : x[1] = user_id}}

Held(user_id) ==
    {rp[2] : rp \in {x \in role_permissions : \E ur \in user_roles :
                                                ur[1] = user_id /\ ur[2] = x[1]}}

\* C12: every request resolves roles and permissions from storage as it is
\* when the request is served, whatever they were when the token was issued:
\* GET /auth/me returns exactly the roles and keys the user holds now, and a
\* guarded route runs only if every required key is held now and answers 403
\* if one is not.
C12_GrantsReadEachRequest ==
    [][ /\ (Served("me") /\ last'.status = 200) =>
              /\ last'.body.permissions = Held(last'.body.user_id)
              /\ last'.body.roles = RolesHeld(last'.body.user_id)
        /\ Served("guarded_route") =>
              \A p \in PrincipalsAt(last'.token, last'.arg.now) :
                 LET required == last'.arg.required IN
                 /\ last'.status = 200 =>
                       \A i \in 1..Len(required) : required[i] \in Held(p.user_id)
                 /\ (\E i \in 1..Len(required) : required[i] \notin Held(p.user_id)) =>
                       last'.status = 403 /\ last'.body = NoBody ]_vars

\* u2, granted leave.apply when the token was issued, was refused on a route
\* that requires it after the grant was taken away.
C12_Witness ==
    /\ last.op = "guarded_route" /\ last.status = 403
    /\ last.token = create_access_token("u2", "o1", 0)
    /\ last.arg.required = <<"leave.apply">>
    /\ "leave.apply" \in _load_permissions_at_issue("u2")
    /\ "leave.apply" \notin Held("u2")

\* C13: while the user a token names is inactive or has no row, every request
\* that presents the token as a bearer is answered 401, and a refresh with the
\* user's refresh token is answered 401 and returns no tokens.
C13_InactiveUserRefused ==
    [][ (Served("me") \/ Served("guarded_route") \/ Served("refresh")) =>
          LET sub == last'.token.sub IN
          (sub \notin DOMAIN users \/ ~users[sub].is_active) =>
              /\ last'.status = 401
              /\ last'.body = NoBody ]_vars

\* The refresh token of u2 was refused after u2 was deactivated or removed.
C13_Witness ==
    /\ last.op = "refresh" /\ last.status = 401
    /\ last.detail = "User inactive or not found"
    /\ last.token = create_refresh_token("u2", "o1", 0)
    /\ ("u2" \notin DOMAIN users \/ ~users["u2"].is_active)


\* The list routes whose rows carry the org_id column.
OrgListOps ==
    { "list_employees", "list_reportees", "list_leave_requests", "list_sessions",
      "list_holidays", "list_payroll_cycles", "list_audit_logs" }

\* C14: a list endpoint that answers 200 returns only rows of the principal's
\* organization, for every combination of filters, limit and offset: each row
\* of the employees, reportees, sessions, leave requests, holidays, payroll
\* cycles and audit logs lists has org_id equal to the principal's org_id, and
\* the balances list is exactly the (leave_type_id, balance) pairs of the
\* principal's own rows in that organization.
C14_ListsStayInOrg ==
    [][ \A p \in PrincipalsAt(last'.token, last'.now) :
          /\ (last'.op \in OrgListOps /\ last' # last /\ last'.status = 200) =>
                \A row \in last'.body.rows : row.org_id = p.org_id
          /\ (Handled("my_balances") /\ last'.status = 200) =>
                last'.body.rows =
                  { [leave_type_id |-> b.leave_type_id, balance |-> b.balance] :
                      b \in {x \in leave_balances : /\ x.org_id = p.org_id
                                                    /\ x.employee_id = p.employee_id} } ]_vars

\* A manager of o1 listed the leave requests of e3, an employee of o2, and got
\* no row; and listed the reportees of e1 and was not shown e4 of o2.
C14_Witness ==
    /\ last.status = 200
    /\ last.token = create_access_token("u1", "o1", 0)
    /\ \/ /\ last.op = "list_leave_requests" /\ last.arg.employee_id = "e3"
          /\ last.body.rows = {}
          /\ \E lr \in leave_requests : lr.employee_id = "e3"
       \/ /\ last.op = "list_reportees" /\ last.arg.employee_id = "e1"
          /\ \E e \in employees : e.manager_employee_id = "e1" /\ e \notin last.body.rows


\* C15: apply_leave with end_date before start_date never creates a leave
\* request or an audit row, whoever calls it; for a caller that passes the
\* gate and has an employee row it fails with 400 'Invalid date range', and it
\* does so whether or not the leave type exists in the caller's organization.
C15_InvalidDateRange ==
    [][ (Handled("apply_leave") /\ last'.arg.end_date < last'.arg.start_date) =>
          /\ last'.status # 201
          /\ UNCHANGED <<leave_requests, audit_logs>>
          /\ \A p \in PrincipalsAt(last'.token, last'.arg.now) :
                ("leave.apply" \in p.permissions /\ p.employee_id # NULL) =>
                    last'.status = 400 /\ last'.detail = "Invalid date range" ]_vars

\* An employee applied with end_date before start_date and a leave type id no
\* organization has, and was told the date range is invalid.
C15_Witness ==
    /\ last.op = "apply_leave" /\ last.status = 400
    /\ last.detail = "Invalid date range"
    /\ last.arg.end_date < last.arg.start_date
    /\ last.arg.leave_type_id \notin {t.id : t \in leave_types}
    /\ leave_requests = {}

\* C16: an apply_leave that answers 201 adds exactly one leave_requests row,
\* for the caller's employee and organization and the leave type asked for,
\* 'pending' with decided_at null when the leave type requires approval,
\* 'approved' with decided_at the request time when it does not; an
\* apply_leave with valid dates by a caller with an employee row whose leave
\* type id is not a leave type of the caller's organization fails with 400
\* 'Invalid leave type' and adds no row.
C16_ApplyCreatesOneRow ==
    [][ Handled("apply_leave") =>
          \A p \in PrincipalsAt(last'.token, last'.arg.now) :
             LET a == last'.arg
                 types == {t \in leave_types : t.id = a.leave_type_id /\ t.org_id = p.org_id}
             IN
             /\ last'.status = 201 =>
                   \E row \in leave_requests' \ leave_requests :
                      /\ leave_requests' = leave_requests \cup {row}
                      /\ row.employee_id = p.employee_id /\ row.org_id = p.org_id
                      /\ row.leave_type_id = a.leave_type_id
                      /\ row.requested_at = a.now
                      /\ \E t \in types :
                            IF t.requires_approval
                            THEN row.status = "pending" /\ row.decided_at = NoTime
                            ELSE row.status = "approved" /\ row.decided_at = a.now
             /\ ( /\ "leave.apply" \in p.permissions /\ p.employee_id # NULL
                  /\ a.start_date <= a.end_date /\ types = {} ) =>
                   /\ last'.status = 400 /\ last'.detail = "Invalid leave type"
                   /\ leave_requests' = leave_requests ]_vars

\* An employee of o1 holds a request approved at the time it was made, and
\* then a manager of o2 was refused a leave type of o1.
C16_Witness ==
    /\ \E row \in leave_requests :
          /\ row.status = "approved" /\ row.decided_at = row.requested_at
          /\ row.employee_id = "e2" /\ row.requested_at = TickSeconds
    /\ last.op = "apply_leave" /\ last.status = 400 /\ last.detail = "Invalid leave type"
    /\ last.token = create_access_token("u3", "o2", 0)
    /\ last.arg.leave_type_id = "lt_annual"


\* The audited operations and the action tag each passes to write_audit_log.
AuditedOps ==
    {"login", "create_employee", "clock_in", "clock_out", "apply_leave", "decide_leave"}

ActionTag(op) ==
    CASE op = "login" -> "auth.login"
      [] op = "create_employee" -> "employee.create"
      [] op = "clock_in" -> "attendance.clock_in"
      [] op = "clock_out" -> "attendance.clock_out"
      [] op = "apply_leave" -> "leave.apply"
      [] op = "decide_leave" -> "leave.decide"

\* The step is a run of an audited operation.
AuditedStep == last'.op \in AuditedOps /\ last' # last

\* C17: an audited operation (login, create_employee, clock_in, clock_out,
\* apply_leave, decide_leave) that answers 200 or 201 appends exactly one row
\* to audit_logs, with the actor's user id, the actor's org id, the
\* operation's action tag and the id of the row the operation wrote (for
\* login, the user's id); an operation that answers anything else appends
\* nothing.
C17_OneAuditRowPerSuccess ==
    [][ AuditedStep =>
          IF last'.status \in {200, 201}
          THEN /\ Len(audit_logs') = Len(audit_logs) + 1
               /\ SubSeq(audit_logs', 1, Len(audit_logs)) = audit_logs
               /\ LET row == audit_logs'[Len(audit_logs')] IN
                  /\ row.action = ActionTag(last'.op)
                  /\ IF last'.op = "login"
                     THEN LET access == decode_token(last'.body.access_token, last'.now) IN
                          /\ row.actor_user_id = access.sub
                          /\ row.org_id = access.org_id
                          /\ row.entity_id = access.sub
                     ELSE /\ \A p \in PrincipalsAt(last'.token, last'.now) :
                                row.actor_user_id = p.user_id /\ row.org_id = p.org_id
                          /\ row.entity_id = last'.body.id
          ELSE audit_logs' = audit_logs ]_vars

\* The log holds the row of a create_employee and then the row of a clock_out
\* that has just answered 200.
C17_Witness ==
    /\ Len(audit_logs) = 2
    /\ audit_logs[1].action = "employee.create"
    /\ last.op = "clock_out" /\ last.status = 200
    /\ audit_logs[2].action = "attendance.clock_out"
    /\ audit_logs[2].entity_id = last.body.id

\* C18: audit_logs is append-only: in every step the log after the step is
\* the log before it followed by zero or more new rows.
C18_AuditAppendOnly ==
    [][ /\ Len(audit_logs') >= Len(audit_logs)
        /\ SubSeq(audit_logs', 1, Len(audit_logs)) = audit_logs ]_vars

\* Two operations of different kinds have been logged, in the order they ran.
C18_Witness ==
    /\ Len(audit_logs) = 2
    /\ audit_logs[1].action = "leave.apply"
    /\ audit_logs[2].action = "leave.decide"
    /\ audit_logs[1].actor_user_id # audit_logs[2].actor_user_id

\* The step is a run of `op` in which the INSERT INTO audit_logs raised.
AuditFailed(op) == Handled(op) /\ audit_down /\ ~audit_down'

\* C20: when write_audit_log raises in an audited operation, the client is
\* answered 500, no audit row is added, and the operation's own write is in
\* storage after the request: the new leave request, the decision and its
\* approval row, the clock-in or clock-out of the session, the new employee,
\* the user's last_login_at.
C20_PrimaryWriteSurvivesAuditFailure ==
    [][ /\ (\E op \in AuditedOps : AuditFailed(op)) =>
              last'.status = 500 /\ audit_logs' = audit_logs
        /\ AuditFailed("apply_leave") =>
              \A p \in PrincipalsAt(last'.token, last'.now) :
                 \E row \in leave_requests' \ leave_requests :
                    /\ leave_requests' = leave_requests \cup {row}
                    /\ row.employee_id = p.employee_id
                    /\ row.leave_type_id = last'.arg.leave_type_id
        /\ AuditFailed("decide_leave") =>
              /\ \E lr \in leave_requests' :
                    lr.id = last'.entity /\ lr.status \in {"approved", "rejected"}
              /\ \A lr \in leave_requests : lr.id = last'.entity => lr.status = "pending"
              /\ \E ap \in leave_approvals' \ leave_approvals :
                    ap.leave_request_id = last'.entity
        /\ AuditFailed("clock_in") =>
              \A p \in PrincipalsAt(last'.token, last'.now) :
                 /\ ~ \E a \in attendance_sessions :
                        /\ a.employee_id = p.employee_id /\ a.session_date = today
                        /\ a.clock_in_at # NoTime
                 /\ \E a \in attendance_sessions' :
                        /\ a.employee_id = p.employee_id /\ a.session_date = today
                        /\ a.clock_in_at = last'.now
        /\ AuditFailed("clock_out") =>
              \A p \in PrincipalsAt(last'.token, last'.now) :
                 /\ \E a \in attendance_sessions :
                        /\ a.employee_id = p.employee_id /\ a.session_date = today
                        /\ a.clock_out_at = NoTime
                 /\ \E a \in attendance_sessions' :
                        /\ a.employee_id = p.employee_id /\ a.session_date = today
                        /\ a.clock_out_at = last'.now
        /\ AuditFailed("create_employee") =>
              \A p \in PrincipalsAt(last'.token, last'.now) :
                 \E e \in employees' \ employees :
                    /\ employees' = employees \cup {e}
                    /\ e.org_id = p.org_id
                    /\ e.manager_employee_id = last'.arg.manager_employee_id
        /\ AuditFailed("login") =>
              \E u \in UsersMatching(last'.arg.org_slug, last'.arg.email) :
                 /\ users[u].last_login_at = NoTime
                 /\ users'[u].last_login_at = last'.now ]_vars

\* The audit insert of a create_employee raised; the employee it created is in
\* the table with no audit row for it, and a later operation has been logged.
C20_Witness ==
    /\ \E e \in employees : e.id \in EmployeeIdPool
    /\ audit_logs # <<>>
    /\ \A i \in 1..Len(audit_logs) : audit_logs[i].action # "employee.create"


\* C19: refresh answers 401 'Invalid refresh token' and returns no tokens
\* whenever the token presented does not decode (wrong signature, expired) or
\* its type claim is not 'refresh', so an access token is never accepted; a
\* refresh that answers 200 was given a decodable refresh token and returns an
\* access token and a refresh token with that token's sub and org_id.
C19_RefreshOnlyWithRefreshToken ==
    [][ Handled("refresh") =>
          LET d == decode_token(last'.token, last'.arg.now) IN
          /\ (~d.ok \/ d.type # "refresh") =>
                /\ last'.status = 401 /\ last'.detail = "Invalid refresh token"
                /\ last'.body = NoBody
          /\ last'.status = 200 =>
                LET access == decode_token(last'.body.access_token, last'.now)
                    refreshed == decode_token(last'.body.refresh_token, last'.now)
                IN /\ d.ok /\ d.type = "refresh"
                   /\ access.ok /\ access.type = "access"
                   /\ access.sub = d.sub /\ access.org_id = d.org_id
                   /\ refreshed.ok /\ refreshed.type = "refresh"
                   /\ refreshed.sub = d.sub /\ refreshed.org_id = d.org_id
          /\ last'.status # 200 => last'.body = NoBody ]_vars

\* An access token that login had just issued, still valid, was presented to
\* refresh and refused.
C19_Witness ==
    /\ last.op = "refresh" /\ last.status = 401
    /\ last.detail = "Invalid refresh token"
    /\ last.token.type = "access"
    /\ last.token.iat > 0
    /\ decode_token(last.token, last.arg.now).ok


\* Every decided request that needed a decision has its approval row, and no
\* approval row belongs to a request still pending.
C21_Paired ==
    /\ \A lr \in leave_requests :
          ( /\ lr.status \in {"approved", "rejected"}
            /\ \E t \in leave_types : t.id = lr.leave_type_id /\ t.requires_approval ) =>
             \E ap \in leave_approvals :
                ap.leave_request_id = lr.id /\ ap.org_id = lr.org_id
    /\ \A ap \in leave_approvals : \A lr \in leave_requests :
          lr.id = ap.leave_request_id => lr.status # "pending"
    /\ \A r \in ReqIds : reqs[r].pc # "idle" => reqs[r].principal.employee_id # NULL

\* A decide_leave by an approver who holds leave.approve and has no employee
\* row is refused and writes nothing; on a pending request of the approver's
\* organization the refusal is a 400.
C21_Unmapped ==
    (last'.op = "decide_leave" /\ last' # last) =>
       \A p \in PrincipalsAt(last'.token, 0) :
          ("leave.approve" \in p.permissions /\ p.employee_id = NULL) =>
             /\ last'.status \in {400, 404}
             /\ UNCHANGED <<leave_requests, leave_approvals>>
             /\ (\E lr \in leave_requests :
                    /\ lr.id = last'.entity /\ lr.org_id = p.org_id
                    /\ lr.status = "pending") => last'.status = 400

\* C21: with decide_leave requests interleaved at their statements, in every
\* committed state a request approved or rejected by a decision has its
\* leave_approvals row and no approval row belongs to a pending request (the
\* UPDATE and the INSERT are one commit); and a decide_leave by an approver
\* with no employee mapping fails with 400 on a pending request (404 when the
\* request is not in the approver's organization) and makes neither change.
C21_DecideInOneCommit == []C21_Paired /\ [][C21_Unmapped]_vars

\* A request has been decided and has its approval row while the deciding
\* request has not yet written its audit row, and the manager with no
\* employee row has just been refused on another, pending request.
C21_Witness ==
    /\ \E lr \in leave_requests : \E ap \in leave_approvals :
          /\ lr.status \in {"approved", "rejected"} /\ ap.leave_request_id = lr.id
    /\ \E r \in ReqIds : reqs[r].pc = "audit"
    /\ last.op = "decide_leave" /\ last.status = 400
    /\ last.detail = "Approver must be mapped to an employee"
    /\ \E lr \in leave_requests : lr.id = last.entity /\ lr.status = "pending"


\* The rows of a table that belong to organizations other than org_id.
RowsOfOthers(table, org_id) == {r \in table : r.org_id # org_id}

\* C22: in a step of create_employee, apply_leave, decide_leave, clock_in or
\* clock_out by a principal of one organization, the rows of every other
\* organization in employees, leave_requests, leave_approvals and
\* attendance_sessions are exactly what they were, every row the step adds
\* (audit rows included) carries the principal's org_id, and a decide_leave on
\* a leave request of another organization answers 404 and changes neither
\* leave_requests nor leave_approvals.
C22_WritesStayInOrg ==
    [][ (last'.op \in AuditedOps \ {"login"} /\ last' # last) =>
          \A p \in CallerOf(last'.token) :
             /\ RowsOfOthers(employees', p.org_id) = RowsOfOthers(employees, p.org_id)
             /\ RowsOfOthers(leave_requests', p.org_id) = RowsOfOthers(leave_requests, p.org_id)
             /\ RowsOfOthers(leave_approvals', p.org_id) = RowsOfOthers(leave_approvals, p.org_id)
             /\ RowsOfOthers(attendance_sessions', p.org_id)
                   = RowsOfOthers(attendance_sessions, p.org_id)
             /\ \A i \in (Len(audit_logs) + 1)..Len(audit_logs') :
                   audit_logs'[i].org_id = p.org_id
             /\ ( /\ last'.op = "decide_leave"
                  /\ \E lr \in leave_requests : lr.id = last'.entity /\ lr.org_id # p.org_id ) =>
                   /\ last'.status = 404
                   /\ UNCHANGED <<leave_requests, leave_approvals>> ]_vars

\* The manager of o1 was answered 404 on the pending leave request of o2,
\* after writing rows of o1 into the tables that hold the rows of o2.
C22_Witness ==
    /\ last.op = "decide_leave" /\ last.status = 404
    /\ last.token = create_access_token("u1", "o1", 0)
    /\ \E lr \in leave_requests :
          lr.id = last.entity /\ lr.org_id = "o2" /\ lr.status = "pending"
    /\ \E a \in attendance_sessions : a.org_id = "o1"
    /\ \E a \in attendance_sessions : a.org_id = "o2"


\* C23: in the in-memory application, as in the relational one, a
\* decide_leave on a leave request that is already 'approved' or 'rejected'
\* fails and leaves the request's status and decided_at as they were, so a
\* request leaves 'pending' at most once.
C23_DemoDecidedOnce ==
    [][ (last'.op = "demo_decide_leave" /\ last' # last) =>
          \A i \in 1..Len(demo_leave_requests) :
             ( /\ demo_leave_requests[i].id = last'.entity
               /\ demo_leave_requests[i].status \in {"approved", "rejected"} ) =>
                 /\ last'.status # 200
                 /\ demo_leave_requests'[i].status = demo_leave_requests[i].status
                 /\ demo_leave_requests'[i].decided_at = demo_leave_requests[i].decided_at ]_vars


\* The indexes of the in-memory sessions of an employee with no clock_out_at.
DemoOpenSessions(sessions, employee_id) ==
    {i \in DemoSessionsOf(sessions, employee_id) : sessions[i].clock_out_at = NoIso}

C24_OneOpen ==
    \A i \in 1..Len(demo_attendance_sessions) :
        Cardinality(DemoOpenSessions(demo_attendance_sessions,
                                     demo_attendance_sessions[i].employee_id)) <= 1

C24_ClockInStep ==
    (last'.op = "demo_clock_in" /\ last' # last) =>
        \A u \in DemoCallerOf(last'.token) :
            \A i \in DemoOpenSessions(demo_attendance_sessions, u.employee_id) :
                /\ last'.status = 200
                /\ last'.body = demo_attendance_sessions[i]
                /\ demo_attendance_sessions' = demo_attendance_sessions

\* C24: in the in-memory application every employee has at most one session
\* with clock_out_at null, whatever the dates, and a clock_in issued while the
\* caller has such a session answers with that session as it is, changing no
\* session and adding none.
C24_ClockInIdempotent == []C24_OneOpen /\ [][C24_ClockInStep]_vars

\* A clock_in answered with the session the caller opened on an earlier day.
C24_Witness ==
    /\ last.op = "demo_clock_in" /\ last.status = 200 /\ last.now = NoTime
    /\ \E u \in DemoCallerOf(last.token) :
          \E i \in DemoOpenSessions(demo_attendance_sessions, u.employee_id) :
              /\ demo_attendance_sessions[i] = last.body
              /\ demo_attendance_sessions[i].session_date < today
    /\ Len(demo_attendance_sessions) = 1


\* C25: in the relational application, after any sequence of apply_leave and
\* decide_leave calls, every leave request has a status among 'pending',
\* 'approved' and 'rejected', and its decided_at is null exactly when the
\* status is 'pending'.
C25_DecidedAtIffDecided ==
    \A r \in leave_requests :
        /\ r.status \in {"pending", "approved", "rejected"}
        /\ (r.decided_at = NoTime) <=> (r.status = "pending")

\* A request applied for and later rejected by decide_leave: its decided_at
\* is the time of the decision.
C25_Witness ==
    /\ last.op = "decide_leave" /\ last.status = 200
    /\ \E r \in leave_requests :
          /\ r.id = last.entity /\ r.status = "rejected"
          /\ r.decided_at = last.now /\ r.requested_at < r.decided_at


\* Every approval row belongs to a request of its organization whose status is
\* the row's decision, and a request of a leave type that needs no approval
\* has no approval row.
C26_Rows ==
    /\ \A ap \in leave_approvals :
          \E lr \in leave_requests :
             /\ lr.id = ap.leave_request_id /\ lr.org_id = ap.org_id
             /\ lr.status = ap.decision
    /\ \A lr \in leave_requests :
          (\E t \in leave_types : t.id = lr.leave_type_id /\ ~t.requires_approval) =>
              ApprovalsOf(leave_approvals, lr.id) = {}

\* C26: in the relational application every leave_approvals row refers to a
\* leave request of the same organization whose current status equals the
\* row's decision, and a leave request approved at apply time (leave type
\* with requires_approval false) has no leave_approvals row, ever.
C26_ApprovalsMatchRequests == []C26_Rows

\* C26, the approver: with requests run one at a time, a leave_approvals row
\* added by a decide_leave carries the employee id of the principal deciding.
C26_ApproverIsCaller ==
    [][ Handled("decide_leave") =>
          \A ap \in leave_approvals' \ leave_approvals :
             \E p \in CallerOf(last'.token) :
                ap.approver_employee_id = p.employee_id /\ ap.org_id = p.org_id ]_vars


\* C27: for every token that login or refresh has just issued, the principal
\* get_current_principal resolves from it has the org_id of the token's claim,
\* and that is the org_id of the users row the resolver loads by id alone.
C27_PrincipalOrgIsUsersOrg ==
    \A token \in IssuedTokens : \A now \in Times :
        \A p \in PrincipalsAt(token, now) :
            /\ p.org_id = token.org_id
            /\ p.user_id \in DOMAIN users
            /\ p.org_id = users[p.user_id].org_id

\* refresh has issued an access token that resolves to a principal.
C27_Witness ==
    /\ last.op = "refresh" /\ last.status = 200
    /\ \E p \in PrincipalsAt(last.body.access_token, last.now) :
          p.org_id = users[p.user_id].org_id /\ p.user_id = last.token.sub


\* What refresh asks of the token it is given and of the users table.
RefreshAccepted(token, now) ==
    /\ decode_token(token, now).ok
    /\ token.type = "refresh"
    /\ token.sub \in DOMAIN users
    /\ users[token.sub].is_active
    /\ users[token.sub].org_id = token.org_id

\* C28: refresh leaves storage unchanged (no audit_logs row, no last_login_at,
\* nothing kept about the token presented), so whether it succeeds depends
\* only on the token, the clock and the user row: the same refresh token, when
\* presented again, succeeds again while it is unexpired and the user is active.
C28_RefreshKeepsNothing ==
    [][ Handled("refresh") =>
          /\ UNCHANGED <<relVars, rbacVars, demoVars, audit_down>>
          /\ (last'.status = 200) <=> RefreshAccepted(last'.token, last'.arg.now)
          /\ ( /\ last.op = "refresh" /\ last.status = 200
               /\ last'.token = last.token
               /\ decode_token(last'.token, last'.arg.now).ok ) => last'.status = 200 ]_vars

\* A refresh token issued at login was accepted later; the only trace in
\* storage is login's.
C28_Witness ==
    /\ last.op = "refresh" /\ last.status = 200
    /\ last.now > last.token.iat
    /\ Len(audit_logs) = 1 /\ audit_logs[1].action = "auth.login"
    /\ users[last.token.sub].last_login_at = last.token.iat


\* The caller's rows of dates before today that are still open.
OpenEarlier(p) ==
    {s \in attendance_sessions :
        /\ s.org_id = p.org_id /\ s.employee_id = p.employee_id
        /\ s.session_date < today /\ IsOpen(s)}

\* C29: in the relational application clock_in and clock_out touch only the
\* caller's attendance row of the current date: rows of other dates and of
\* other employees stay as they are and a row added is the caller's for today.
\* So a session left open on an earlier date is not closed by a later
\* clock_out, which fails with 400 'Not clocked in' when today has no row, and
\* does not keep clock_in from opening today's session.
C29_OnlyTodaysRow ==
    [][ (Handled("clock_in") \/ Handled("clock_out")) =>
          /\ CallerOf(last'.token) = {} => attendance_sessions' = attendance_sessions
          /\ \A p \in CallerOf(last'.token) :
                /\ \A s \in attendance_sessions :
                      ~( /\ s.org_id = p.org_id /\ s.employee_id = p.employee_id
                         /\ s.session_date = today ) => s \in attendance_sessions'
                /\ \A s \in attendance_sessions' \ attendance_sessions :
                      /\ s.org_id = p.org_id /\ s.employee_id = p.employee_id
                      /\ s.session_date = today
                /\ ( /\ OpenEarlier(p) # {} /\ last' # last
                     /\ SessionsOf(attendance_sessions, p.org_id, p.employee_id, today) = {} ) =>
                      IF last'.op = "clock_out"
                      THEN last'.status = 400 /\ last'.detail = "Not clocked in"
                      ELSE /\ last'.status = 200
                           /\ \E s \in attendance_sessions' \ attendance_sessions :
                                 s.session_date = today /\ IsOpen(s) ]_vars

\* A clock_out closed today's session of an employee whose session of an
\* earlier date is still open.
C29_Witness ==
    /\ last.op = "clock_out" /\ last.status = 200
    /\ \E p \in CallerOf(last.token) :
          /\ OpenEarlier(p) # {}
          /\ \E s \in SessionsOf(attendance_sessions, p.org_id, p.employee_id, today) :
                s.id = last.entity /\ s.clock_out_at = last.now


\* The keys the dependency of a route requires.
RequiredBy(op) ==
    CASE op = "create_employee" -> {"employee.write"}
      [] op = "apply_leave" -> {"leave.apply"}
      [] op = "decide_leave" -> {"leave.approve"}
      [] OTHER -> {}

\* C30: a request rejected by get_current_principal (401) or by a
\* require_permissions checker (403) changes no table, audit_logs included,
\* and the handler body has not run: a token that resolves to no principal is
\* answered 401, and a principal lacking a required key is answered 403 (401
\* once its token has expired), whatever the handler would have answered.
\* A login answered 400 or 401 changes no users row and writes no audit row.
C30_RejectedChangesNothing ==
    [][ (last'.op \in AuditedOps /\ last' # last) =>
          /\ last'.status \in {401, 403} => UNCHANGED <<relVars, rbacVars, demoVars>>
          /\ (last'.op = "login" /\ last'.status \in {400, 401}) =>
                UNCHANGED <<relVars, rbacVars, demoVars>>
          /\ last'.op # "login" =>
                /\ CallerOf(last'.token) = {} => last'.status = 401
                /\ \A p \in CallerOf(last'.token) :
                      ~(RequiredBy(last'.op) \subseteq p.permissions) =>
                          last'.status \in {401, 403} ]_vars

\* After a row was written, a create_employee by a principal without
\* employee.write was answered 403.
C30_Witness ==
    /\ last.op = "create_employee" /\ last.status = 403
    /\ \E p \in CallerOf(last.token) : "employee.write" \notin p.permissions
    /\ Len(audit_logs) = 1
    /\ employees = InitEmployees

====
